---- MODULE Spec2Model ----
(***************************************************************************)
(* Model of the dexcom-share-ts client: the Dexcom class (session          *)
(* handling, error classification, readings operations), the in-memory     *)
(* session cache, and the retrying fetch of the utilities.                 *)
(*                                                                         *)
(* JavaScript values are tagged records: Str(s), Num(n), Null, Undef,      *)
(* Obj(code, message), Arr(items).  A JavaScript string is a TLA+ string;  *)
(* Chars gives its characters, so that the regular expressions and the     *)
(* substring tests of the source are evaluated character by character.     *)
(***************************************************************************)
EXTENDS Integers, Sequences, FiniteSets, TLC

\* ------------------------------------------------------------------------
\* JavaScript values
\* ------------------------------------------------------------------------
Str(s) == [t |-> "str", s |-> s]
Num(n) == [t |-> "num", n |-> n]
Null == [t |-> "null"]
Undef == [t |-> "undef"]
Obj(code, message) == [t |-> "obj", Code |-> code, Message |-> message]
Arr(items) == [t |-> "arr", items |-> items]

IsStr(v) == v.t = "str"

\* Boolean(v): the falsy values are "", 0, null and undefined.
Truthy(v) ==
  CASE v.t = "str" -> v.s # ""
    [] v.t = "num" -> v.n # 0
    [] v.t = "null" -> FALSE
    [] v.t = "undef" -> FALSE
    [] OTHER -> TRUE

\* The characters of the strings the model uses.
Chars(s) ==
  CASE s = "" -> <<>>
  [] s = "00000000-0000-0000-0000-000000000000" -> <<"0", "0", "0", "0", "0", "0", "0", "0", "-", "0", "0", "0", "0", "-", "0", "0", "0", "0", "-", "0", "0", "0", "0", "-", "0", "0", "0", "0", "0", "0", "0", "0", "0", "0", "0", "0">>
  [] s = "11111111-1111-4111-8111-111111111111" -> <<"1", "1", "1", "1", "1", "1", "1", "1", "-", "1", "1", "1", "1", "-", "4", "1", "1", "1", "-", "8", "1", "1", "1", "-", "1", "1", "1", "1", "1", "1", "1", "1", "1", "1", "1", "1">>
  [] s = "22222222-2222-4222-8222-222222222222" -> <<"2", "2", "2", "2", "2", "2", "2", "2", "-", "2", "2", "2", "2", "-", "4", "2", "2", "2", "-", "8", "2", "2", "2", "-", "2", "2", "2", "2", "2", "2", "2", "2", "2", "2", "2", "2">>
  [] s = "aaaaaaaa-AAAA-4aaa-8aaa-aaaaaaaaaaaa" -> <<"a", "a", "a", "a", "a", "a", "a", "a", "-", "A", "A", "A", "A", "-", "4", "a", "a", "a", "-", "8", "a", "a", "a", "-", "a", "a", "a", "a", "a", "a", "a", "a", "a", "a", "a", "a">>
  [] s = "aaaaaaaaaaaaaaaaaaaaaaaaaaaaaaaaaaaa" -> <<"a", "a", "a", "a", "a", "a", "a", "a", "a", "a", "a", "a", "a", "a", "a", "a", "a", "a", "a", "a", "a", "a", "a", "a", "a", "a", "a", "a", "a", "a", "a", "a", "a", "a", "a", "a">>
  [] s = "gggggggg-gggg-gggg-gggg-gggggggggggg" -> <<"g", "g", "g", "g", "g", "g", "g", "g", "-", "g", "g", "g", "g", "-", "g", "g", "g", "g", "-", "g", "g", "g", "g", "-", "g", "g", "g", "g", "g", "g", "g", "g", "g", "g", "g", "g">>
  [] s = "not-a-uuid" -> <<"n", "o", "t", "-", "a", "-", "u", "u", "i", "d">>
  [] s = "user@example.com" -> <<"u", "s", "e", "r", "@", "e", "x", "a", "m", "p", "l", "e", ".", "c", "o", "m">>
  [] s = "secret" -> <<"s", "e", "c", "r", "e", "t">>
  [] s = "Cannot Authenticate by AccountName" -> <<"C", "a", "n", "n", "o", "t", " ", "A", "u", "t", "h", "e", "n", "t", "i", "c", "a", "t", "e", " ", "b", "y", " ", "A", "c", "c", "o", "u", "n", "t", "N", "a", "m", "e">>
  [] s = "Cannot Authenticate by AccountId" -> <<"C", "a", "n", "n", "o", "t", " ", "A", "u", "t", "h", "e", "n", "t", "i", "c", "a", "t", "e", " ", "b", "y", " ", "A", "c", "c", "o", "u", "n", "t", "I", "d">>
  [] s = "accountName" -> <<"a", "c", "c", "o", "u", "n", "t", "N", "a", "m", "e">>
  [] s = "password" -> <<"p", "a", "s", "s", "w", "o", "r", "d">>
  [] s = "UUID" -> <<"U", "U", "I", "D">>
  [] s = "x Cannot Authenticate by AccountName x" -> <<"x", " ", "C", "a", "n", "n", "o", "t", " ", "A", "u", "t", "h", "e", "n", "t", "i", "c", "a", "t", "e", " ", "b", "y", " ", "A", "c", "c", "o", "u", "n", "t", "N", "a", "m", "e", " ", "x">>
  [] s = "x Cannot Authenticate by AccountId x" -> <<"x", " ", "C", "a", "n", "n", "o", "t", " ", "A", "u", "t", "h", "e", "n", "t", "i", "c", "a", "t", "e", " ", "b", "y", " ", "A", "c", "c", "o", "u", "n", "t", "I", "d", " ", "x">>
  [] s = "Cannot Authenticate by Accountname" -> <<"C", "a", "n", "n", "o", "t", " ", "A", "u", "t", "h", "e", "n", "t", "i", "c", "a", "t", "e", " ", "b", "y", " ", "A", "c", "c", "o", "u", "n", "t", "n", "a", "m", "e">>
  [] s = "accountName password UUID" -> <<"a", "c", "c", "o", "u", "n", "t", "N", "a", "m", "e", " ", "p", "a", "s", "s", "w", "o", "r", "d", " ", "U", "U", "I", "D">>
  [] s = "password UUID" -> <<"p", "a", "s", "s", "w", "o", "r", "d", " ", "U", "U", "I", "D">>
  [] s = "bad UUID format" -> <<"b", "a", "d", " ", "U", "U", "I", "D", " ", "f", "o", "r", "m", "a", "t">>
  [] s = "Password" -> <<"P", "a", "s", "s", "w", "o", "r", "d">>
  [] s = "Session expired" -> <<"S", "e", "s", "s", "i", "o", "n", " ", "e", "x", "p", "i", "r", "e", "d">>
  [] s = "SessionIdNotFound" -> <<"S", "e", "s", "s", "i", "o", "n", "I", "d", "N", "o", "t", "F", "o", "u", "n", "d">>
  [] s = "SessionNotValid" -> <<"S", "e", "s", "s", "i", "o", "n", "N", "o", "t", "V", "a", "l", "i", "d">>
  [] s = "AccountPasswordInvalid" -> <<"A", "c", "c", "o", "u", "n", "t", "P", "a", "s", "s", "w", "o", "r", "d", "I", "n", "v", "a", "l", "i", "d">>
  [] s = "SSO_AuthenticateMaxAttemptsExceeded" -> <<"S", "S", "O", "_", "A", "u", "t", "h", "e", "n", "t", "i", "c", "a", "t", "e", "M", "a", "x", "A", "t", "t", "e", "m", "p", "t", "s", "E", "x", "c", "e", "e", "d", "e", "d">>
  [] s = "SSO_InternalError" -> <<"S", "S", "O", "_", "I", "n", "t", "e", "r", "n", "a", "l", "E", "r", "r", "o", "r">>
  [] s = "InvalidArgument" -> <<"I", "n", "v", "a", "l", "i", "d", "A", "r", "g", "u", "m", "e", "n", "t">>
  [] s = "SomethingElse" -> <<"S", "o", "m", "e", "t", "h", "i", "n", "g", "E", "l", "s", "e">>
  [] s = "sessionidnotfound" -> <<"s", "e", "s", "s", "i", "o", "n", "i", "d", "n", "o", "t", "f", "o", "u", "n", "d">>

Hex ==
  {"0", "1", "2", "3", "4", "5", "6", "7", "8", "9",
   "a", "b", "c", "d", "e", "f", "A", "B", "C", "D", "E", "F"}

\* String.prototype.includes: sub occurs in s as a contiguous substring.
Includes(s, sub) ==
  LET cs == Chars(s)
      cp == Chars(sub)
  IN \E i \in 0..(Len(cs) - Len(cp)) :
       \A j \in 1..Len(cp) : cs[i + j] = cp[j]

\* ------------------------------------------------------------------------
\* constants.ts
\* ------------------------------------------------------------------------
DEFAULT_UUID == "00000000-0000-0000-0000-000000000000"
MAX_MINUTES == 1440
MAX_MAX_COUNT == 288
Regions == {"us", "ous", "jp"}
AUTH == "General/AuthenticatePublisherAccount"
LOGIN == "General/LoginPublisherAccountById"
READ == "Publisher/ReadPublisherLatestGlucoseValues"
Endpoints == {AUTH, LOGIN, READ}

\* ------------------------------------------------------------------------
\* errors.ts: an error is its class and its code (the message).
\* ------------------------------------------------------------------------
Err(kind, code) == [kind |-> kind, code |-> code]
AccountError(code) == Err("AccountError", code)
SessionError(code) == Err("SessionError", code)
ArgumentError(code) == Err("ArgumentError", code)
ServerError(code) == Err("ServerError", code)

ACCOUNT_FAILED_AUTHENTICATION == "Failed to authenticate"
ACCOUNT_MAX_ATTEMPTS == "Maximum authentication attempts exceeded"
SESSION_NOT_FOUND == "Session ID not found"
SESSION_INVALID == "Session not active or timed out"
MINUTES_INVALID == "Minutes must be and integer between 1 and 1440"
MAX_COUNT_INVALID == "Max count must be and integer between 1 and 288"
USERNAME_INVALID == "Username must be non-empty string"
USER_ID_MULTIPLE == "Only one of account_id, username should be provided"
USER_ID_REQUIRED == "At least one of account_id, username should be provided"
PASSWORD_INVALID == "Password must be non-empty string"
REGION_INVALID == "Region must be 'us', 'ous, or 'jp'"
ACCOUNT_ID_INVALID == "Account ID must be UUID"
ACCOUNT_ID_DEFAULT == "Account ID default"
SESSION_ID_INVALID == "Session ID must be UUID"
SESSION_ID_DEFAULT == "Session ID default"
SERVER_INVALID_JSON == "Invalid or malformed JSON in server response"
SERVER_UNKNOWN_CODE == "Unknown error code in server response"
SERVER_UNEXPECTED == "Unexpected server response"

\* Errors that are not DexcomError: a TypeError of the runtime, a ZodError of
\* the schema validator, the Error fetchWithRetry builds, a rejected fetch.
TypeError == Err("TypeError", "not a function")
ZodError == Err("ZodError", "invalid")
NoError == Err("none", "")

\* ------------------------------------------------------------------------
\* util.ts
\* ------------------------------------------------------------------------
\* /^[0-9a-fA-F]{8}-[0-9a-fA-F]{4}-[0-9a-fA-F]{4}-[0-9a-fA-F]{4}-[0-9a-fA-F]{12}$/
isValidUUID(uuid) ==
  /\ IsStr(uuid)
  /\ LET cs == Chars(uuid.s)
     IN /\ Len(cs) = 36
        /\ \A i \in 1..36 :
             IF i \in {9, 14, 19, 24} THEN cs[i] = "-" ELSE cs[i] \in Hex

\* Numbers that may be fractional are counted in halves: 3 is 1.5 and 2880
\* is 1440.
IsInteger(h) == h % 2 = 0

\* A variant of validateMinutesAndCount that omits Number.isInteger.
validateMinutesAndCountNoInteger(minutes, maxCount, minM, maxM, minC, maxC) ==
  IF minutes < 2 * minM \/ minutes > 2 * maxM
  THEN ArgumentError(MINUTES_INVALID)
  ELSE IF maxCount < 2 * minC \/ maxCount > 2 * maxC
       THEN ArgumentError(MAX_COUNT_INVALID)
       ELSE NoError

\* The error validateMinutesAndCount throws, or NoError.
validateMinutesAndCount(minutes, maxCount, minM, maxM, minC, maxC) ==
  IF ~IsInteger(minutes) \/ minutes < 2 * minM \/ minutes > 2 * maxM
  THEN ArgumentError(MINUTES_INVALID)
  ELSE IF ~IsInteger(maxCount) \/ maxCount < 2 * minC \/ maxCount > 2 * maxC
       THEN ArgumentError(MAX_COUNT_INVALID)
       ELSE NoError

\* ------------------------------------------------------------------------
\* schemas.ts
\* ------------------------------------------------------------------------
\* zAuthString: a string matching /^[0-9a-fA-F-]{36}$/.
zAuthStringOk(v) ==
  /\ IsStr(v)
  /\ LET cs == Chars(v.s)
     IN Len(cs) = 36 /\ \A i \in 1..36 : cs[i] \in Hex \cup {"-"}

\* zRawGlucoseArray: an array whose items all have the shape of a reading.
zRawGlucoseArrayOk(v) ==
  /\ v.t = "arr"
  /\ \A i \in 1..Len(v.items) : v.items[i].valid

\* ------------------------------------------------------------------------
\* dexcom.ts: the error classifier
\* ------------------------------------------------------------------------
\* message.includes(sub) on a Message that is a string.  On a number the
\* method does not exist and the call throws a TypeError.
HasIncludes(message) == IsStr(message)

\* A variant of handleErrorCode that tests the Message before the Code, so
\* that a body with Code and Message is an unknown code.
handleErrorCodeMessageFirst(json) ==
  LET code == IF json.t = "obj" THEN json.Code ELSE Undef
      message == IF json.t = "obj" THEN json.Message ELSE Undef
      codeIs(c) == IsStr(code) /\ code.s = c
  IN
  IF Truthy(code) /\ Truthy(message) THEN ServerError(SERVER_UNKNOWN_CODE)
  ELSE IF codeIs("SessionIdNotFound") THEN SessionError(SESSION_NOT_FOUND)
  ELSE IF codeIs("SessionNotValid") THEN SessionError(SESSION_INVALID)
  ELSE IF codeIs("AccountPasswordInvalid")
       THEN AccountError(ACCOUNT_FAILED_AUTHENTICATION)
  ELSE IF codeIs("SSO_AuthenticateMaxAttemptsExceeded")
       THEN AccountError(ACCOUNT_MAX_ATTEMPTS)
  ELSE ServerError(SERVER_UNEXPECTED)

\* A variant of handleErrorCode that tests the InvalidArgument substrings
\* in the order UUID, password, accountName.
handleErrorCodeUuidFirst(json) ==
  LET code == IF json.t = "obj" THEN json.Code ELSE Undef
      message == IF json.t = "obj" THEN json.Message ELSE Undef
      codeIs(c) == IsStr(code) /\ code.s = c
      nullish == message.t \in {"null", "undef"}
  IN
  IF codeIs("SessionIdNotFound") THEN SessionError(SESSION_NOT_FOUND)
  ELSE IF codeIs("SessionNotValid") THEN SessionError(SESSION_INVALID)
  ELSE IF codeIs("AccountPasswordInvalid")
       THEN AccountError(ACCOUNT_FAILED_AUTHENTICATION)
  ELSE IF codeIs("SSO_AuthenticateMaxAttemptsExceeded")
       THEN AccountError(ACCOUNT_MAX_ATTEMPTS)
  ELSE IF codeIs("SSO_InternalError") /\ Truthy(message) /\ ~HasIncludes(message)
       THEN TypeError
  ELSE IF /\ codeIs("SSO_InternalError")
          /\ Truthy(message)
          /\ \/ Includes(message.s, "Cannot Authenticate by AccountName")
             \/ Includes(message.s, "Cannot Authenticate by AccountId")
       THEN AccountError(ACCOUNT_FAILED_AUTHENTICATION)
  ELSE IF codeIs("InvalidArgument") /\ ~nullish /\ ~HasIncludes(message)
       THEN TypeError
  ELSE IF codeIs("InvalidArgument") /\ ~nullish /\ Includes(message.s, "UUID")
       THEN ArgumentError(ACCOUNT_ID_INVALID)
  ELSE IF codeIs("InvalidArgument") /\ ~nullish /\ Includes(message.s, "password")
       THEN ArgumentError(PASSWORD_INVALID)
  ELSE IF codeIs("InvalidArgument") /\ ~nullish /\ Includes(message.s, "accountName")
       THEN ArgumentError(USERNAME_INVALID)
  ELSE IF Truthy(code) /\ Truthy(message) THEN ServerError(SERVER_UNKNOWN_CODE)
  ELSE ServerError(SERVER_UNEXPECTED)

\* The error handleErrorCode returns for a parsed body; TypeError when the
\* evaluation throws instead of returning.
handleErrorCode(json) ==
  LET isObject == json.t \in {"obj", "arr"}
      code == IF json.t = "obj" THEN json.Code ELSE Undef
      message == IF json.t = "obj" THEN json.Message ELSE Undef
      codeIs(c) == IsStr(code) /\ code.s = c
      nullish == message.t \in {"null", "undef"}
  IN
  IF codeIs("SessionIdNotFound") THEN SessionError(SESSION_NOT_FOUND)
  ELSE IF codeIs("SessionNotValid") THEN SessionError(SESSION_INVALID)
  ELSE IF codeIs("AccountPasswordInvalid")
       THEN AccountError(ACCOUNT_FAILED_AUTHENTICATION)
  ELSE IF codeIs("SSO_AuthenticateMaxAttemptsExceeded")
       THEN AccountError(ACCOUNT_MAX_ATTEMPTS)
  ELSE IF codeIs("SSO_InternalError") /\ Truthy(message) /\ ~HasIncludes(message)
       THEN TypeError
  ELSE IF /\ codeIs("SSO_InternalError")
          /\ Truthy(message)
          /\ \/ Includes(message.s, "Cannot Authenticate by AccountName")
             \/ Includes(message.s, "Cannot Authenticate by AccountId")
       THEN AccountError(ACCOUNT_FAILED_AUTHENTICATION)
  ELSE IF codeIs("InvalidArgument") /\ ~nullish /\ ~HasIncludes(message)
       THEN TypeError
  ELSE IF codeIs("InvalidArgument") /\ ~nullish /\ Includes(message.s, "accountName")
       THEN ArgumentError(USERNAME_INVALID)
  ELSE IF codeIs("InvalidArgument") /\ ~nullish /\ Includes(message.s, "password")
       THEN ArgumentError(PASSWORD_INVALID)
  ELSE IF codeIs("InvalidArgument") /\ ~nullish /\ Includes(message.s, "UUID")
       THEN ArgumentError(ACCOUNT_ID_INVALID)
  ELSE IF Truthy(code) /\ Truthy(message) THEN ServerError(SERVER_UNKNOWN_CODE)
  ELSE ServerError(SERVER_UNEXPECTED)

\* ------------------------------------------------------------------------
\* dexcom.ts: the constructor's validation
\* ------------------------------------------------------------------------
validateRegion(region) ==
  IF region \notin Regions THEN ArgumentError(REGION_INVALID) ELSE NoError

\* A variant of validateUserIds that counts every value but undefined.
validateUserIdsDefined(accountId, username) ==
  LET count == (IF accountId # Undef THEN 1 ELSE 0) + (IF username # Undef THEN 1 ELSE 0)
  IN IF count = 0 THEN ArgumentError(USER_ID_REQUIRED)
     ELSE IF count # 1 THEN ArgumentError(USER_ID_MULTIPLE)
     ELSE NoError

validateUserIds(accountId, username) ==
  LET count == (IF Truthy(accountId) THEN 1 ELSE 0) + (IF Truthy(username) THEN 1 ELSE 0)
  IN IF count = 0 THEN ArgumentError(USER_ID_REQUIRED)
     ELSE IF count # 1 THEN ArgumentError(USER_ID_MULTIPLE)
     ELSE NoError

\* ------------------------------------------------------------------------
\* cache.ts: MemorySessionCache, a record [id, expiresAt]; id is Null or Str.
\* ------------------------------------------------------------------------
NewCache == [id |-> Null, expiresAt |-> 0]

\* A variant of get() that does not look at expiresAt.
CacheGetNoExpiry(c, t) == IF Truthy(c.id) THEN c.id ELSE Null

CacheGet(c, t) == IF Truthy(c.id) /\ t < c.expiresAt THEN c.id ELSE Null

Max0(n) == IF n > 0 THEN n ELSE 0

\* A variant of set() that keeps an identifier already stored.
CacheSetFirstWins(c, id, ttlMs, t) ==
  IF Truthy(c.id) THEN c ELSE [id |-> id, expiresAt |-> t + Max0(ttlMs)]

\* A variant of set() that keeps a later expiry already stored.
CacheSetKeepsExpiry(c, id, ttlMs, t) ==
  [id |-> id,
   expiresAt |-> IF c.expiresAt > t + Max0(ttlMs) THEN c.expiresAt ELSE t + Max0(ttlMs)]

\* A variant of set() that forgets the TTL.
CacheSetNoTtl(c, id, ttlMs, t) == [id |-> id, expiresAt |-> t]

CacheSet(c, id, ttlMs, t) == [id |-> id, expiresAt |-> t + Max0(ttlMs)]

\* A variant of clear() that keeps the entry.
CacheClearKeeps(c) == c

CacheClear(c) == [id |-> Null, expiresAt |-> 0]

\* ------------------------------------------------------------------------
\* util.ts: backoff
\* ------------------------------------------------------------------------
Min(a, b) == IF a < b THEN a ELSE b

\* A variant of backoffDelay without the cap.
backoffDelayUncapped(attempt, base, max) == base * 2 ^ (attempt - 1)

\* Math.min(max, base * 2 ** (attempt - 1))
backoffDelay(attempt, base, max) == Min(max, base * 2 ^ (attempt - 1))

\* Math.random() is one of 0, 1/2 and just under 1: the three delays full
\* jitter can return are 0, half of delay + 1 rounded down, and delay.
JitterChoices(delay) == {0, (delay + 1) \div 2, delay}

\* The delays backoff(attempt, base, max, jitter) can return.
backoff(attempt, base, max, jitter) ==
  IF ~jitter THEN {backoffDelay(attempt, base, max)}
  ELSE JitterChoices(backoffDelay(attempt, base, max))

\* ------------------------------------------------------------------------
\* Bounds of the model
\* ------------------------------------------------------------------------
MaxOps == 2          \* read operations started on the client
MaxClock == 2        \* the wall clock runs from 0 to MaxClock
MaxRetries == 2      \* the largest "retries" option tried

Procs == {1, 2}

\* Identifiers the endpoints and the callers use.
TOK1 == "11111111-1111-4111-8111-111111111111"
TOK2 == "22222222-2222-4222-8222-222222222222"
ACC == "aaaaaaaa-AAAA-4aaa-8aaa-aaaaaaaaaaaa"
NODASH == "aaaaaaaaaaaaaaaaaaaaaaaaaaaaaaaaaaaa"
NOTUUID == "not-a-uuid"
GoodIds == {TOK1, TOK2, ACC}

\* ------------------------------------------------------------------------
\* State
\* ------------------------------------------------------------------------
VARIABLES
  params,     \* the constructor's argument
  ctor,       \* "new", "ok", or "failed": the outcome of the constructor
  ctorErr,    \* the error the constructor threw
  username,   \* this.username
  accountId,  \* this.accountId
  password,   \* this.password
  cache,      \* this.cache, a MemorySessionCache
  now,        \* Date.now()
  proc,       \* the read operations in progress, one per caller
  opsStarted, \* read operations started so far
  serial,     \* TRUE: a caller awaits each operation before the next one
  env,        \* what the network, the server and the callers may do: the
              \* errors fetch rejects with, the retried statuses and the
              \* retry-after headers the server answers with, the statuses
              \* of its error responses, the number of operations started
  setAt,      \* history: the time of the last cache.set, -1 if none
  clean,      \* history: every call so far had valid arguments and every
              \* request so far was answered by a success
  total,      \* history: HTTP requests per endpoint, counted while clean
  clsBody,    \* the classifier's input (classifier specification)
  clsResult,  \* the classifier's output (classifier specification)
  bkIn,       \* the arguments of backoff (backoff specification)
  bkOut,      \* what backoff computed and returned (backoff specification)
  cacheLog    \* history of the cache used on its own (cache specification):
              \* the last set(), whether clear() followed it, and the last
              \* call with what and when it returned

vars ==
  <<params, ctor, ctorErr, username, accountId, password, cache, now, proc,
    opsStarted, serial, env, setAt, clean, total, clsBody, clsResult, bkIn, bkOut,
    cacheLog>>

clientVars == <<params, ctor, ctorErr, username, password>>

\* The two getters of a constructed client.
getUsername == username
getAccountId == accountId
clsVars == <<clsBody, clsResult>>
bkVars == <<bkIn, bkOut>>
pureVars == <<clsVars, bkVars, cacheLog>>

NoResult == [state |-> "none", value |-> Undef, err |-> NoError]
Resolved(v) == [state |-> "resolved", value |-> v, err |-> NoError]
Rejected(e) == [state |-> "rejected", value |-> Undef, err |-> e]

ZeroCalls == [e \in Endpoints |-> 0]

IdleProc ==
  [pc |-> "idle", op |-> "none", minutes |-> 0, maxCount |-> 0,
   cached |-> Null, sessionId |-> Null, endpoint |-> "none", attempt |-> 0,
   lastErr |-> NoError, err |-> NoError, retried |-> FALSE,
   result |-> NoResult,
   \* history of the operation: the calls of each endpoint that sent a
   \* request; the last request sent; the sleeps of the current call; the
   \* last response received; whether every request was answered by a
   \* success, bar the readings requests answered by a session error; the
   \* number of the latter; the identifier the last successful session
   \* login returned; the age of the cache entry at the start; the numbers
   \* of cache.clear() and cache.set() calls; the calls made before the
   \* cache.clear(); the failed attempts of the current call, one entry per
   \* attempt; the HTTP requests the current call sent; the responses
   \* fetchWithRetry returned to the operation so far; whether each of them
   \* was the endpoint's success; the requests the call that returned last
   \* had sent (until the next call begins)
   calls |-> ZeroCalls, sent |-> Null, slept |-> <<>>, last |-> Null,
   happy |-> TRUE, sessRej |-> 0, issued |-> Null, age |-> -1,
   cleared |-> 0, sets |-> 0, atClear |-> ZeroCalls,
   fails |-> <<>>, reqs |-> 0, got |-> 0, rok |-> TRUE, took |-> 0]


\* retry options, with the defaults of fetchWithRetry
retries == params.retry.retries
baseDelayMs == params.retry.baseDelayMs
maxDelayMs == params.retry.maxDelayMs
jitter == params.retry.jitter
retryOnStatuses == {429, 500, 502, 503, 504}
sessionTtlMs == params.sessionTtlMs

\* ------------------------------------------------------------------------
\* The server and the network: what one HTTP request can end in
\* ------------------------------------------------------------------------
JsonBody(d) == [kind |-> "json", data |-> d]
BadBody == [kind |-> "bad", data |-> Null]      \* text that is not JSON
EmptyBody == [kind |-> "empty", data |-> Null]  \* no text at all

Reading(v) == [valid |-> TRUE, Value |-> v]
BadReading == [valid |-> FALSE, Value |-> 0]

AuthBodies ==
  {JsonBody(Str(ACC)), JsonBody(Str(DEFAULT_UUID)), JsonBody(Str(NODASH)),
   JsonBody(Str(NOTUUID)), JsonBody(Num(5)), BadBody}
LoginBodies ==
  {JsonBody(Str(TOK1)), JsonBody(Str(TOK2)), JsonBody(Str(DEFAULT_UUID)),
   JsonBody(Str(NODASH)), JsonBody(Str(NOTUUID)), EmptyBody, BadBody}
ReadBodies ==
  {JsonBody(Arr(<<>>)), JsonBody(Arr(<<Reading(85)>>)),
   JsonBody(Arr(<<Reading(85), Reading(90)>>)),
   JsonBody(Arr(<<BadReading>>)), BadBody}
ErrBodies ==
  {JsonBody(Obj(Str("SessionNotValid"), Str("Session expired"))),
   JsonBody(Obj(Str("SessionIdNotFound"), Undef)),
   JsonBody(Obj(Str("AccountPasswordInvalid"), Str(""))),
   JsonBody(Obj(Str("SomethingElse"), Str("Session expired"))),
   EmptyBody, BadBody}

OkBodies(ep) ==
  CASE ep = AUTH -> AuthBodies
    [] ep = LOGIN -> LoginBodies
    [] ep = READ -> ReadBodies

\* Responses whose status is not retried: 200, and the error statuses of
\* the server that are not in retryOnStatuses.
\* A variant of ShouldRetry that retries every status but 200.
ShouldRetryNot200(status) == status # 200

\* fetchWithRetry: is a response of this status retried (not returned)?
ShouldRetry(status) == status \in retryOnStatuses

AllTerminalResponses(ep) ==
  {[status |-> 200, body |-> b] : b \in OkBodies(ep)}
    \cup {[status |-> s, body |-> b] :
            s \in {x \in env.errStatuses \cup env.statuses : ~ShouldRetry(x)},
            b \in ErrBodies}

RetryableStatuses == {429, 503}
NetErrors == {Err("NetworkError", "ECONNRESET"), Err("NetworkError", "ETIMEDOUT")}

HttpMsg(status) ==
  CASE status = 429 -> "HTTP 429"
    [] status = 503 -> "HTTP 503"
    [] OTHER -> "HTTP"

\* retry-after header values: absent, or a text.  Number(text) is n when the
\* text is numeric and NaN otherwise (an HTTP-date is not numeric).
NoHeader == [kind |-> "absent", n |-> 0]
NumHeader(n) == [kind |-> "num", n |-> n]      \* "0", "2", "-1", ...
EmptyHeader == [kind |-> "empty", n |-> 0]     \* ""
TextHeader == [kind |-> "text", n |-> 0]       \* "soon"
DateHeader(at) == [kind |-> "date", n |-> at]  \* an HTTP-date, at seconds from now
AllHeaders ==
  {NoHeader, EmptyHeader, TextHeader, NumHeader(0), NumHeader(2), NumHeader(7),
   NumHeader(-1), DateHeader(1), DateHeader(-1)}

\* Is the response the success the endpoint gives when all is well?
Happy(ep, res) ==
  /\ res.status = 200
  /\ res.body.kind = "json"
  /\ IF ep = READ
     THEN res.body.data.t = "arr" /\ \A i \in 1..Len(res.body.data.items) : res.body.data.items[i].valid
     ELSE res.body.data.t = "str" /\ res.body.data.s \in GoodIds

\* The responses an endpoint may return; a healthy server only gives the
\* endpoint's success.
TerminalResponses(ep) ==
  IF env.healthy THEN {res \in AllTerminalResponses(ep) : Happy(ep, res)}
  ELSE AllTerminalResponses(ep)

SessionCodes == {"SessionIdNotFound", "SessionNotValid"}

\* Has the response a non-2xx status and a body naming a session error?
SessionRejection(res) ==
  /\ res.status # 200
  /\ res.body.kind = "json"
  /\ res.body.data.t = "obj"
  /\ res.body.data.Code.t = "str"
  /\ res.body.data.Code.s \in SessionCodes

\* A readings request answered by a session error.
SessionRejected(ep, res) == ep = READ /\ SessionRejection(res)

\* ------------------------------------------------------------------------
\* dexcom.ts: the constructor
\* ------------------------------------------------------------------------
Construct ==
  /\ ctor = "new"
  /\ LET e1 == validateRegion(params.region)
         e2 == validateUserIds(params.accountId, params.username)
     IN IF e1 # NoError
        THEN /\ ctor' = "failed" /\ ctorErr' = e1
             /\ UNCHANGED <<username, accountId, password, cache>>
        ELSE IF e2 # NoError
        THEN /\ ctor' = "failed" /\ ctorErr' = e2
             /\ UNCHANGED <<username, accountId, password, cache>>
        ELSE /\ ctor' = "ok" /\ ctorErr' = NoError
             /\ password' = params.password
             /\ username' = params.username
             /\ accountId' = params.accountId
             /\ cache' = params.cache
  /\ UNCHANGED <<params, now, proc, opsStarted, serial, env, setAt, clean, total, pureVars>>

\* ------------------------------------------------------------------------
\* Steps of one read operation.  Each step is the code that runs between two
\* suspension points (await); the operators below give the new record of
\* the operation.
\* ------------------------------------------------------------------------
Payload(ep, id, r) ==
  [ep |-> ep, id |-> id,
   minutes |-> IF ep = READ THEN r.minutes ELSE 0,
   maxCount |-> IF ep = READ THEN r.maxCount ELSE 0]

Throw(r, e) == [r EXCEPT !.pc = "catch", !.err = e]

\* post -> fetchWithRetry: the loop is entered and the first request sent;
\* with retries < 1 the loop body never runs and lastErr (undefined) is
\* thrown as new Error(String(undefined)).
IssueFetch(r, ep, id) ==
  IF 1 <= retries
  THEN [r EXCEPT !.pc = "fetch", !.endpoint = ep, !.attempt = 1,
                 !.lastErr = NoError, !.slept = <<>>, !.fails = <<>>,
                 !.sent = Payload(ep, id, r), !.calls[ep] = @ + 1,
                 !.reqs = 1, !.took = 0]
  ELSE [r EXCEPT !.pc = "catch", !.endpoint = ep, !.attempt = 0,
                 !.lastErr = NoError, !.slept = <<>>, !.fails = <<>>,
                 !.reqs = 0, !.took = 0,
                 !.err = Err("Error", "undefined")]

\* A variant of NextAttempt that throws a generic error at exhaustion.
NextAttemptGeneric(r) ==
  IF r.attempt + 1 <= retries
  THEN [r EXCEPT !.pc = "fetch", !.attempt = @ + 1, !.reqs = @ + 1]
  ELSE [r EXCEPT !.pc = "catch", !.err = Err("Error", "retries exhausted")]

\* A variant of NextAttempt whose retry sends the request twice.
NextAttemptTwice(r) ==
  IF r.attempt + 1 <= retries
  THEN [r EXCEPT !.pc = "fetch", !.attempt = @ + 1, !.reqs = @ + 2]
  ELSE [r EXCEPT !.pc = "catch", !.err = r.lastErr]

\* fetchWithRetry, "continue": attempt++, then the loop test.
NextAttempt(r) ==
  IF r.attempt + 1 <= retries
  THEN [r EXCEPT !.pc = "fetch", !.attempt = @ + 1, !.reqs = @ + 1]
  ELSE [r EXCEPT !.pc = "catch", !.err = r.lastErr]

Sleep(r, ms) ==
  [r EXCEPT !.pc = "sleep", !.slept = Append(@, [a |-> r.attempt, ms |-> ms])]

\* The operation is over: its promise settles.
Finish(r, res) == [r EXCEPT !.pc = "done", !.result = res]

\* A variant of ensureSession that uses whatever the cache returns.
ensureSessionTrustsCache(r) ==
  IF Truthy(r.cached)
  THEN IssueFetch([r EXCEPT !.sessionId = r.cached], READ, r.cached)
  ELSE IF ~Truthy(accountId)
  THEN IF ~IsStr(username) \/ ~Truthy(username)
       THEN Throw(r, ArgumentError(USERNAME_INVALID))
       ELSE IF ~IsStr(password) \/ ~Truthy(password)
       THEN Throw(r, ArgumentError(PASSWORD_INVALID))
       ELSE IssueFetch(r, AUTH, username)
  ELSE IF ~isValidUUID(accountId) THEN Throw(r, ArgumentError(ACCOUNT_ID_INVALID))
  ELSE IF accountId.s = DEFAULT_UUID THEN Throw(r, ArgumentError(ACCOUNT_ID_DEFAULT))
  ELSE IssueFetch(r, LOGIN, accountId)

\* A variant of ensureSession that looks the account up on every cache miss.
ensureSessionAlwaysAuth(r) ==
  IF Truthy(r.cached) /\ isValidUUID(r.cached) /\ r.cached.s # DEFAULT_UUID
  THEN IssueFetch([r EXCEPT !.sessionId = r.cached], READ, r.cached)
  ELSE IF ~IsStr(password) \/ ~Truthy(password)
  THEN Throw(r, ArgumentError(PASSWORD_INVALID))
  ELSE IssueFetch(r, AUTH, username)

\* ensureSession after "await this.cache.get()".
ensureSession(r) ==
  IF Truthy(r.cached) /\ isValidUUID(r.cached) /\ r.cached.s # DEFAULT_UUID
  THEN IssueFetch([r EXCEPT !.sessionId = r.cached], READ, r.cached)
  ELSE IF ~Truthy(accountId)
  THEN IF ~IsStr(username) \/ ~Truthy(username)
       THEN Throw(r, ArgumentError(USERNAME_INVALID))
       ELSE IF ~IsStr(password) \/ ~Truthy(password)
       THEN Throw(r, ArgumentError(PASSWORD_INVALID))
       ELSE IssueFetch(r, AUTH, username)
  ELSE IF ~isValidUUID(accountId) THEN Throw(r, ArgumentError(ACCOUNT_ID_INVALID))
  ELSE IF accountId.s = DEFAULT_UUID THEN Throw(r, ArgumentError(ACCOUNT_ID_DEFAULT))
  ELSE IssueFetch(r, LOGIN, accountId)

\* The arguments of the three public operations; minutes and maxCount are
\* counted in halves.
OpKinds == {"getGlucoseReadings", "getLatestGlucoseReading", "getCurrentGlucoseReading"}
\* 0, 0.5, 1, 1.5, 1440, 1440.5, 1441, -1
MinuteArgs == {0, 1, 2, 3, 2 * MAX_MINUTES, 2 * MAX_MINUTES + 1, 2 * MAX_MINUTES + 2, -2}
\* 0, 0.5, 1, 1.5, 288, 288.5, 289, -1
CountArgs == {0, 1, 2, 3, 2 * MAX_MAX_COUNT, 2 * MAX_MAX_COUNT + 1, 2 * MAX_MAX_COUNT + 2, -2}
OpArgs(op) ==
  CASE op = "getLatestGlucoseReading" -> {<<2 * MAX_MINUTES, 2>>}
    [] op = "getCurrentGlucoseReading" -> {<<20, 2>>}
    [] OTHER -> {<<m, 2 * MAX_MAX_COUNT>> : m \in MinuteArgs \ {2}}
                  \cup {<<2, c>> : c \in CountArgs \ {2 * MAX_MAX_COUNT}}
                  \cup {<<0, 0>>, <<3, 2 * MAX_MAX_COUNT + 2>>}

\* History: the requests the step of p sent are added to the client's total,
\* which is kept as long as the run is clean (every call then sends one
\* request).
Account(p) ==
  total' = IF clean'
           THEN [e \in Endpoints |-> total[e] + (proc'[p].calls[e] - proc[p].calls[e])]
           ELSE ZeroCalls

\* getGlucoseReadings(minutes, maxCount) and the two operations that call it.
getGlucoseReadings(op, minutes, maxCount) ==
  LET e == validateMinutesAndCount(minutes, maxCount, 1, MAX_MINUTES, 1, MAX_MAX_COUNT)
      r == [IdleProc EXCEPT !.op = op, !.minutes = minutes, !.maxCount = maxCount,
                            !.age = IF setAt < 0 THEN -1 ELSE now - setAt]
  IN IF e # NoError THEN Finish(r, Rejected(e))
     ELSE [r EXCEPT !.pc = "cacheGet", !.cached = CacheGet(cache, now)]

\* A caller starts a read operation: it runs up to the first await, which
\* is on cache.get() (the in-memory cache answers at the call).
Start(p) ==
  /\ ctor = "ok"
  /\ proc[p].pc = "idle"
  /\ opsStarted < env.ops
  /\ serial => (p = 1 /\ \A q \in Procs : proc[q].pc = "idle")
  /\ \E op \in env.kinds : \E a \in OpArgs(op) :
       proc' = [proc EXCEPT ![p] = getGlucoseReadings(op, a[1], a[2])]
  /\ opsStarted' = opsStarted + 1
  /\ clean' = (clean /\ proc'[p].pc # "done")
  /\ Account(p)
  /\ UNCHANGED <<clientVars, accountId, cache, now, serial, env, setAt, pureVars>>

\* The caller has the outcome of its operation.
Return(p) ==
  /\ proc[p].pc = "done"
  /\ proc' = [proc EXCEPT ![p] = IdleProc]
  /\ UNCHANGED <<clientVars, accountId, cache, now, opsStarted, serial, env, setAt,
                 clean, total, pureVars>>

AfterCacheGet(p) ==
  /\ proc[p].pc = "cacheGet"
  /\ proc' = [proc EXCEPT ![p] = ensureSession(proc[p])]
  /\ clean' = (clean /\ proc'[p].pc = "fetch")
  /\ Account(p)
  /\ UNCHANGED <<clientVars, accountId, cache, now, opsStarted, serial, env, setAt, pureVars>>

\* History: how an attempt failed, by the error fetch rejected with or by
\* the retried status and the retry-after header of the response.
Failure(e, status, h) == [err |-> e, status |-> status, hdr |-> h]

\* A variant of MoreAttempts that counts the final attempt too.
MoreAttemptsAlways(r) == r.attempt <= retries

\* fetchWithRetry, "attempt < retries": is this not the final attempt?
MoreAttempts(r) == r.attempt < retries

\* fetch rejects: a network-level failure.
FetchRejects(p) ==
  /\ proc[p].pc = "fetch"
  /\ \E e \in env.net :
       LET r == [proc[p] EXCEPT !.lastErr = e, !.happy = FALSE,
                                !.fails = Append(@, Failure(e, 0, NoHeader))]
       IN IF MoreAttempts(r)
          THEN \E ms \in backoff(r.attempt, baseDelayMs, maxDelayMs, jitter) :
                 proc' = [proc EXCEPT ![p] = Sleep(r, ms)]
          ELSE proc' = [proc EXCEPT ![p] = Throw(r, e)]
  /\ clean' = FALSE
  /\ Account(p)
  /\ UNCHANGED <<clientVars, accountId, cache, now, opsStarted, serial, env, setAt, pureVars>>

\* The delay taken from a retry-after header that is present.
RetryAfterMs(h) == IF h.kind = "num" THEN h.n * 1000 ELSE baseDelayMs

\* fetch resolves with a status of retryOnStatuses.
FetchRetryable(p) ==
  /\ proc[p].pc = "fetch"
  /\ \E status \in {x \in env.statuses \cup env.errStatuses : ShouldRetry(x)} :
     \E h \in env.hdrs :
       LET r == [proc[p] EXCEPT !.lastErr = Err("Error", HttpMsg(status)),
                                !.happy = FALSE,
                                !.fails = Append(@, Failure(NoError, status, h))]
       IN IF h.kind \notin {"absent", "empty"}
          THEN proc' = [proc EXCEPT ![p] = Sleep(r, Min(RetryAfterMs(h), maxDelayMs))]
          ELSE IF MoreAttempts(r)
          THEN \E ms \in backoff(r.attempt, baseDelayMs, maxDelayMs, jitter) :
                 proc' = [proc EXCEPT ![p] = Sleep(r, ms)]
          ELSE proc' = [proc EXCEPT ![p] = NextAttempt(r)]
  /\ clean' = FALSE
  /\ Account(p)
  /\ UNCHANGED <<clientVars, accountId, cache, now, opsStarted, serial, env, setAt, pureVars>>

\* A sleep of fetchWithRetry is over: the loop continues.
AfterSleep(p) ==
  /\ proc[p].pc = "sleep"
  /\ proc' = [proc EXCEPT ![p] = NextAttempt(proc[p])]
  /\ clean' = clean
  /\ Account(p)
  /\ UNCHANGED <<clientVars, accountId, cache, now, opsStarted, serial, env, setAt, pureVars>>

\* A variant of post that reads a body it cannot parse as null.
postLenient(res) ==
  LET data == IF res.body.kind = "json" THEN res.body.data ELSE Null
  IN IF ~(200 <= res.status /\ res.status <= 299)
     THEN [thrown |-> TRUE, err |-> handleErrorCode(data), data |-> Null]
     ELSE [thrown |-> FALSE, err |-> NoError, data |-> data]

\* post, after fetchWithRetry returned res: the parsed body, or the error thrown.
post(res) ==
  IF res.body.kind = "bad"
  THEN [thrown |-> TRUE, err |-> ServerError(SERVER_INVALID_JSON), data |-> Null]
  ELSE LET data == IF res.body.kind = "empty" THEN Null ELSE res.body.data
       IN IF ~(200 <= res.status /\ res.status <= 299)
          THEN [thrown |-> TRUE, err |-> handleErrorCode(data), data |-> Null]
          ELSE [thrown |-> FALSE, err |-> NoError, data |-> data]

\* fetchWithRetry returns res: its locals are gone.  The history of the
\* operation notes what kind of response it was.
Returned(r, res) ==
  [r EXCEPT !.attempt = 0, !.lastErr = NoError, !.slept = <<>>, !.fails = <<>>,
            !.reqs = 0, !.took = r.reqs, !.got = @ + 1, !.rok = @ /\ Happy(r.endpoint, res),
            !.last = [ep |-> r.endpoint, res |-> res],
            !.issued = IF r.endpoint = LOGIN /\ Happy(LOGIN, res) THEN res.body.data ELSE @,
            !.happy = @ /\ (Happy(r.endpoint, res) \/ SessionRejected(r.endpoint, res)),
            !.sessRej = IF SessionRejected(r.endpoint, res) THEN @ + 1 ELSE @]

\* obtainAccountId, after post: the identifier, or the error thrown.
obtainAccountId(res) ==
  LET got == post(res)
  IN IF got.thrown THEN got
     ELSE IF ~zAuthStringOk(got.data) THEN [thrown |-> TRUE, err |-> ZodError, data |-> Null]
     ELSE got

\* obtainSessionId, after post: the identifier, or the error thrown.
obtainSessionId(res) ==
  LET got == post(res)
  IN IF got.thrown THEN got
     ELSE IF ~zAuthStringOk(got.data) THEN [thrown |-> TRUE, err |-> ZodError, data |-> Null]
     ELSE got

\* A variant that omits the UUID test of the account identifier.
AfterObtainAccountIdUnchecked(r, id) ==
  IF id.s = DEFAULT_UUID THEN Throw(r, ArgumentError(ACCOUNT_ID_DEFAULT))
  ELSE IssueFetch(r, LOGIN, id)

\* ensureSession, from "this.accountId = await this.obtainAccountId()" to the
\* session-login request; id is what obtainAccountId returned.
AfterObtainAccountId(r, id) ==
  IF ~isValidUUID(id) THEN Throw(r, ArgumentError(ACCOUNT_ID_INVALID))
  ELSE IF id.s = DEFAULT_UUID THEN Throw(r, ArgumentError(ACCOUNT_ID_DEFAULT))
  ELSE IssueFetch(r, LOGIN, id)

\* A variant of the checks that lets the all-zero identifier pass.
CheckSessionIdNoDefault(sessionId) ==
  IF ~isValidUUID(sessionId) THEN ArgumentError(SESSION_ID_INVALID)
  ELSE NoError

\* ensureSession, the checks on what obtainSessionId returned: the error
\* thrown, or NoError.
CheckSessionId(sessionId) ==
  IF ~isValidUUID(sessionId) THEN ArgumentError(SESSION_ID_INVALID)
  ELSE IF sessionId.s = DEFAULT_UUID THEN ArgumentError(SESSION_ID_DEFAULT)
  ELSE NoError

\* The account-authentication request is answered: obtainAccountId returns
\* and ensureSession goes on to the session login.
AuthResponds(p) ==
  /\ proc[p].pc = "fetch"
  /\ proc[p].endpoint = AUTH
  /\ \E res \in TerminalResponses(AUTH) :
       LET r == Returned(proc[p], res)
           got == obtainAccountId(res)
       IN /\ clean' = (clean /\ Happy(AUTH, res))
          /\ IF got.thrown
             THEN /\ proc' = [proc EXCEPT ![p] = Throw(r, got.err)]
                  /\ accountId' = accountId
             ELSE /\ accountId' = got.data
                  /\ proc' = [proc EXCEPT ![p] = AfterObtainAccountId(r, got.data)]
  /\ Account(p)
  /\ UNCHANGED <<clientVars, cache, now, opsStarted, serial, env, setAt, pureVars>>

\* The session-login request is answered: obtainSessionId returns and
\* ensureSession validates the identifier and calls cache.set.
LoginResponds(p) ==
  /\ proc[p].pc = "fetch"
  /\ proc[p].endpoint = LOGIN
  /\ \E res \in TerminalResponses(LOGIN) :
       LET r == Returned(proc[p], res)
           got == obtainSessionId(res)
           fails == IF got.thrown THEN got.err ELSE CheckSessionId(got.data)
       IN /\ clean' = (clean /\ Happy(LOGIN, res))
          /\ IF fails # NoError
             THEN /\ proc' = [proc EXCEPT ![p] = Throw(r, fails)]
                  /\ UNCHANGED <<cache, setAt>>
             ELSE /\ proc' = [proc EXCEPT ![p] =
                       [r EXCEPT !.pc = "cacheSet", !.sessionId = got.data, !.sets = @ + 1]]
                  /\ cache' = CacheSet(cache, got.data, sessionTtlMs, now)
                  /\ setAt' = now
  /\ Account(p)
  /\ UNCHANGED <<clientVars, accountId, now, opsStarted, serial, env, pureVars>>

\* "await this.cache.set(...)" is over: ensureSession returns the session
\* identifier and fetchRawReadings posts the readings request.
AfterCacheSet(p) ==
  /\ proc[p].pc = "cacheSet"
  /\ proc' = [proc EXCEPT ![p] = IssueFetch(proc[p], READ, proc[p].sessionId)]
  /\ clean' = (clean /\ proc'[p].pc = "fetch")
  /\ Account(p)
  /\ UNCHANGED <<clientVars, accountId, cache, now, opsStarted, serial, env, setAt, pureVars>>

\* new GlucoseReading(r) for every item; the public operation's value
\* (OpValueNewestLast: a variant that takes the last reading, not the first).
Decode(item) == [mgDl |-> item.Value]

OpValueNewestLast(op, data) ==
  LET arr == [i \in 1..Len(data.items) |-> Decode(data.items[i])]
  IN IF op = "getGlucoseReadings" THEN Arr(arr)
     ELSE IF Len(arr) > 0 THEN arr[Len(arr)] ELSE Undef

OpValue(op, data) ==
  LET arr == [i \in 1..Len(data.items) |-> Decode(data.items[i])]
  IN IF op = "getGlucoseReadings" THEN Arr(arr)
     ELSE IF Len(arr) > 0 THEN arr[1] ELSE Undef

\* fetchRawReadings, after post: the validated array, or the error thrown.
fetchRawReadings(res) ==
  LET got == post(res)
  IN IF got.thrown THEN got
     ELSE IF ~zRawGlucoseArrayOk(got.data)
     THEN [thrown |-> TRUE, err |-> ZodError, data |-> Null]
     ELSE got

\* The readings request is answered: fetchRawReadings validates the array
\* and the public operation resolves.
ReadResponds(p) ==
  /\ proc[p].pc = "fetch"
  /\ proc[p].endpoint = READ
  /\ \E res \in TerminalResponses(READ) :
       LET r == Returned(proc[p], res)
           got == fetchRawReadings(res)
       IN /\ clean' = (clean /\ Happy(READ, res))
          /\ proc' = [proc EXCEPT ![p] =
               IF got.thrown THEN Throw(r, got.err)
               ELSE Finish(r, Resolved(OpValue(r.op, got.data)))]
  /\ Account(p)
  /\ UNCHANGED <<clientVars, accountId, cache, now, opsStarted, serial, env, setAt, pureVars>>

\* A variant of the catch block's test that retries after any error.
RetriesAnyError(r) == ~r.retried

\* A variant of the catch block's test that forgets it already retried.
RetriesSessionAgain(r) == r.err.kind = "SessionError"

\* getGlucoseReadings, the catch block: does the error start the one retry?
RetriesSession(r) == r.err.kind = "SessionError" /\ ~r.retried

\* getGlucoseReadings, the catch block: a SessionError of the first try
\* clears the cache; anything else, and any error of the second try, is thrown.
Catch(p) ==
  /\ proc[p].pc = "catch"
  /\ IF RetriesSession(proc[p])
     THEN /\ cache' = CacheClear(cache)
          /\ proc' = [proc EXCEPT ![p] =
               [@ EXCEPT !.pc = "cacheClear", !.retried = TRUE, !.err = NoError,
                         !.cleared = @ + 1, !.atClear = proc[p].calls]]
     ELSE /\ cache' = cache
          /\ proc' = [proc EXCEPT ![p] = Finish(@, Rejected(proc[p].err))]
  /\ UNCHANGED <<clientVars, accountId, now, opsStarted, serial, env, setAt, clean,
                 total, pureVars>>

\* "await this.cache.clear()" is over: fetchRawReadings is called again, up
\* to the await on cache.get().
AfterCacheClear(p) ==
  /\ proc[p].pc = "cacheClear"
  /\ proc' = [proc EXCEPT ![p] =
       [@ EXCEPT !.pc = "cacheGet", !.cached = CacheGet(cache, now)]]
  /\ UNCHANGED <<clientVars, accountId, cache, now, opsStarted, serial, env, setAt,
                 clean, total, pureVars>>

\* Time passes.
Tick ==
  /\ now < env.clock
  /\ now' = now + 1
  /\ UNCHANGED <<clientVars, accountId, cache, proc, opsStarted, serial, env, setAt,
                 clean, total, pureVars>>

\* ------------------------------------------------------------------------
\* Initial states: the constructor's argument is chosen, nothing has run.
\* ------------------------------------------------------------------------
DefaultBaseDelayMs == 200
DefaultMaxDelayMs == 4000

RetryOptions(n, j) ==
  [retries |-> n, baseDelayMs |-> DefaultBaseDelayMs,
   maxDelayMs |-> DefaultMaxDelayMs, jitter |-> j]

UsernameArgs == {Undef, Str(""), Str("user@example.com")}
AccountIdArgs == {Undef, Str(ACC), Str(NOTUUID), Str(DEFAULT_UUID)}
PasswordArgs == {Str("secret"), Str("")}
RegionArgs == {"us", "xx"}
TtlArgs == {0, 2}
\* The default cache, and injected caches that already hold something.
CacheArgs ==
  {NewCache, [id |-> Str(TOK1), expiresAt |-> 2],
   [id |-> Str(DEFAULT_UUID), expiresAt |-> 2], [id |-> Str(NOTUUID), expiresAt |-> 2]}

BaseParams ==
  [region |-> "us", username |-> Str("user@example.com"), accountId |-> Undef,
   password |-> Str("secret"), sessionTtlMs |-> 2, cache |-> NewCache,
   retry |-> RetryOptions(1, FALSE)]

\* The two ways to identify the account.
ByUsername(q) == [q EXCEPT !.username = Str("user@example.com"), !.accountId = Undef]
ByAccountId(q) == [q EXCEPT !.username = Undef, !.accountId = Str(ACC)]

\* The constructor's arguments tried: every region and identity; every
\* password and cache for both identities; a malformed accountId with a
\* cache that holds a token; every TTL and retry count for both.
ParamArgs ==
  {[BaseParams EXCEPT !.region = g, !.username = u, !.accountId = a] :
     g \in RegionArgs, u \in UsernameArgs, a \in AccountIdArgs}
  \cup {[BaseParams EXCEPT !.region = "jp"]}
  \cup {[q EXCEPT !.password = pw, !.cache = c] :
     q \in {ByUsername(BaseParams), ByAccountId(BaseParams)},
     pw \in PasswordArgs, c \in CacheArgs}
  \cup {[ByAccountId(BaseParams) EXCEPT !.accountId = Str(NOTUUID),
                                       !.cache = [id |-> Str(TOK1), expiresAt |-> 2]]}
  \cup {[q EXCEPT !.sessionTtlMs = ttl, !.retry = RetryOptions(n, FALSE)] :
     q \in {ByUsername(BaseParams), ByAccountId(BaseParams)},
     ttl \in TtlArgs, n \in 0..MaxRetries}

InitCommon ==
  /\ ctor = "new"
  /\ ctorErr = NoError
  /\ username = Undef
  /\ accountId = Undef
  /\ password = Undef
  /\ cache = NewCache
  /\ now = 0
  /\ proc = [p \in Procs |-> IdleProc]
  /\ opsStarted = 0
  /\ total = ZeroCalls
  /\ setAt = -1
  /\ clean = TRUE
  /\ clsResult = NoError
  /\ bkOut = Null

Init ==
  /\ InitCommon
  /\ clsBody = Null
  /\ bkIn = Null
  /\ cacheLog = Null
  /\ params \in ParamArgs
  /\ serial = TRUE
  /\ env = [net |-> {Err("NetworkError", "ECONNRESET")}, statuses |-> {503},
            hdrs |-> {NoHeader}, errStatuses |-> {401}, ops |-> MaxOps,
            kinds |-> OpKinds, clock |-> MaxClock, healthy |-> FALSE]

Next ==
  \/ Construct
  \/ Tick
  \/ \E p \in Procs : Start(p)
  \/ \E p \in Procs : Return(p)
  \/ \E p \in Procs : AfterCacheGet(p)
  \/ \E p \in Procs : FetchRejects(p)
  \/ \E p \in Procs : FetchRetryable(p)
  \/ \E p \in Procs : AfterSleep(p)
  \/ \E p \in Procs : AuthResponds(p)
  \/ \E p \in Procs : LoginResponds(p)
  \/ \E p \in Procs : AfterCacheSet(p)
  \/ \E p \in Procs : ReadResponds(p)
  \/ \E p \in Procs : Catch(p)
  \/ \E p \in Procs : AfterCacheClear(p)

Spec == Init /\ [][Next]_vars

\* ------------------------------------------------------------------------
\* The resilient transport under every kind of fault: one operation of a
\* client whose retry options vary, against a server that answers with
\* network failures, retried statuses with every kind of retry-after
\* header, and terminal statuses.
\* ------------------------------------------------------------------------
\* (baseDelayMs, maxDelayMs): the defaults, and a pair whose cap binds at
\* the second attempt.
DelayArgs == {<<DefaultBaseDelayMs, DefaultMaxDelayMs>>, <<3000, DefaultMaxDelayMs>>}

TransportParams ==
  {[BaseParams EXCEPT !.retry = [retries |-> n, baseDelayMs |-> d[1],
                                 maxDelayMs |-> d[2], jitter |-> j]] :
     n \in 1..(MaxRetries + 1), d \in DelayArgs, j \in BOOLEAN}

\* What the network does: failures of both kinds and bare retried statuses;
\* or one retried status whose retry-after header is absent, empty, text or
\* an HTTP-date; or one whose header is a number of seconds.
FaultEnv(net, statuses, hdrs) ==
  [net |-> net, statuses |-> statuses, hdrs |-> hdrs, errStatuses |-> {418},
   ops |-> 1, kinds |-> {"getCurrentGlucoseReading"}, clock |-> 1, healthy |-> FALSE]

TransportEnvs ==
  {FaultEnv(NetErrors, RetryableStatuses, {NoHeader}),
   FaultEnv({}, {429}, {h \in AllHeaders : h.kind # "num"}),
   FaultEnv({}, {429}, {h \in AllHeaders : h.kind = "num"})}

InitTransport ==
  /\ InitCommon
  /\ clsBody = Null
  /\ bkIn = Null
  /\ cacheLog = Null
  /\ params \in TransportParams
  /\ serial = TRUE
  /\ env \in TransportEnvs

SpecTransport == InitTransport /\ [][Next]_vars

\* ------------------------------------------------------------------------
\* The error classifier on its own: post hands handleErrorCode the parsed
\* body of a non-2xx response.
\* ------------------------------------------------------------------------
ClsCodes ==
  {Str("SessionIdNotFound"), Str("SessionNotValid"), Str("AccountPasswordInvalid"),
   Str("SSO_AuthenticateMaxAttemptsExceeded"), Str("SSO_InternalError"),
   Str("InvalidArgument"), Str("SomethingElse"), Str("sessionidnotfound"),
   Str(""), Undef, Null, Num(5)}

ClsMessages ==
  {Undef, Null, Str(""), Num(0), Num(5),
   Str("Cannot Authenticate by AccountName"), Str("Cannot Authenticate by AccountId"),
   Str("x Cannot Authenticate by AccountName x"), Str("x Cannot Authenticate by AccountId x"),
   Str("Cannot Authenticate by Accountname"),
   Str("accountName"), Str("password"), Str("UUID"), Str("accountName password UUID"),
   Str("password UUID"), Str("bad UUID format"), Str("Password"), Str("Session expired")}

\* Parsed bodies: objects with Code and Message, and values that are no
\* object with these fields.
ClsBodies ==
  {Obj(c, m) : c \in ClsCodes, m \in ClsMessages}
    \cup {Null, Str("SessionIdNotFound"), Num(5), Arr(<<>>)}

InitClassifier ==
  /\ InitCommon
  /\ params = BaseParams
  /\ serial = TRUE
  /\ env = [net |-> {}, statuses |-> {}, hdrs |-> {}, errStatuses |-> {}, ops |-> 0,
            kinds |-> {}, clock |-> 0, healthy |-> FALSE]
  /\ clsBody \in ClsBodies
  /\ bkIn = Null
  /\ cacheLog = Null

\* handleErrorCode(json) is evaluated.
Classify ==
  /\ clsResult = NoError
  /\ clsResult' = handleErrorCode(clsBody)
  /\ UNCHANGED <<clientVars, accountId, cache, now, proc, opsStarted, serial, env,
                 setAt, clean, total, clsBody, bkVars, cacheLog>>

NextClassifier == Classify

SpecClassifier == InitClassifier /\ [][NextClassifier]_vars

\* ------------------------------------------------------------------------
\* The backoff calculator alone: backoff(attempt, base, max, jitter) is
\* evaluated on one argument list.
\* ------------------------------------------------------------------------
MaxAttempt == 5
MaxBase == 4
MaxCap == 12

BackoffArgs ==
  [attempt : 1..MaxAttempt, base : (0..MaxBase) \cup {DefaultBaseDelayMs},
   max : {0, 1, MaxCap - 2, MaxCap, DefaultMaxDelayMs}, jitter : BOOLEAN]

InitBackoff ==
  /\ InitCommon
  /\ clsBody = Null
  /\ params = BaseParams
  /\ serial = TRUE
  /\ env = [net |-> {}, statuses |-> {}, hdrs |-> {}, errStatuses |-> {}, ops |-> 0,
            kinds |-> {}, clock |-> 0, healthy |-> FALSE]
  /\ bkIn \in BackoffArgs
  /\ cacheLog = Null

\* backoff is called: the delay before the jitter, the one of the next
\* attempt, and the value returned.
Backoff ==
  /\ bkOut = Null
  /\ \E d \in backoff(bkIn.attempt, bkIn.base, bkIn.max, bkIn.jitter) :
       bkOut' = [raw |-> backoffDelay(bkIn.attempt, bkIn.base, bkIn.max),
                 next |-> backoffDelay(bkIn.attempt + 1, bkIn.base, bkIn.max),
                 delay |-> d]
  /\ UNCHANGED <<clientVars, accountId, cache, now, proc, opsStarted, serial, env,
                 setAt, clean, total, clsVars, bkIn, cacheLog>>

NextBackoff == Backoff

SpecBackoff == InitBackoff /\ [][NextBackoff]_vars

\* ------------------------------------------------------------------------
\* The in-memory session cache alone: get, set and clear are called in any
\* order while the clock advances.
\* ------------------------------------------------------------------------
InitCache ==
  /\ InitCommon
  /\ clsBody = Null
  /\ bkIn = Null
  /\ params = BaseParams
  /\ serial = TRUE
  /\ env = [net |-> {}, statuses |-> {}, hdrs |-> {}, errStatuses |-> {}, ops |-> 0,
            kinds |-> {}, clock |-> MaxClock + 1, healthy |-> FALSE]
  /\ cacheLog = [set |-> FALSE, id |-> Null, ttlMs |-> 0, at |-> 0, cleared |-> FALSE,
                 op |-> "new", ret |-> Null, when |-> 0]

\* get(): no field is assigned.
Get ==
  /\ cacheLog' = [cacheLog EXCEPT !.op = "get", !.ret = CacheGet(cache, now), !.when = now]
  /\ UNCHANGED <<clientVars, accountId, cache, now, proc, opsStarted, serial, env,
                 setAt, clean, total, clsVars, bkVars>>

\* set(id, ttlMs)
Set ==
  /\ \E id \in {Str(TOK1), Str(TOK2)} : \E ttlMs \in {-1, 0, 1, 2} :
       /\ cache' = CacheSet(cache, id, ttlMs, now)
       /\ cacheLog' = [set |-> TRUE, id |-> id, ttlMs |-> ttlMs, at |-> now,
                       cleared |-> FALSE, op |-> "set", ret |-> Null, when |-> now]
  /\ UNCHANGED <<clientVars, accountId, now, proc, opsStarted, serial, env,
                 setAt, clean, total, clsVars, bkVars>>

\* clear()
Clear ==
  /\ cache' = CacheClear(cache)
  /\ cacheLog' = [cacheLog EXCEPT !.cleared = TRUE, !.op = "clear", !.ret = Null,
                                  !.when = now]
  /\ UNCHANGED <<clientVars, accountId, now, proc, opsStarted, serial, env,
                 setAt, clean, total, clsVars, bkVars>>

NextCache == Get \/ Set \/ Clear \/ Tick

SpecCache == InitCache /\ [][NextCache]_vars

\* ------------------------------------------------------------------------
\* Two callers share one client with the default cache; their operations
\* interleave at every await, and the server always succeeds.
\* ------------------------------------------------------------------------
InitConcurrent ==
  /\ InitCommon
  /\ clsBody = Null
  /\ bkIn = Null
  /\ cacheLog = Null
  /\ params \in {ByUsername(BaseParams), ByAccountId(BaseParams)}
  /\ serial = FALSE
  /\ env = [net |-> {}, statuses |-> {}, hdrs |-> {}, errStatuses |-> {}, ops |-> MaxOps,
            kinds |-> {"getLatestGlucoseReading", "getCurrentGlucoseReading"},
            clock |-> MaxClock, healthy |-> TRUE]

NextConcurrent ==
  \/ Construct
  \/ Tick
  \/ \E p \in Procs : Start(p)
  \/ \E p \in Procs : Return(p)
  \/ \E p \in Procs : AfterCacheGet(p)
  \/ \E p \in Procs : AuthResponds(p)
  \/ \E p \in Procs : LoginResponds(p)
  \/ \E p \in Procs : AfterCacheSet(p)
  \/ \E p \in Procs : ReadResponds(p)

SpecConcurrent == InitConcurrent /\ [][NextConcurrent]_vars

\* ------------------------------------------------------------------------
\* Two callers share one username-configured client with the default cache
\* and a server that may answer anything: their operations interleave at
\* every await, the catch block's retry included.
\* ------------------------------------------------------------------------
InitRace ==
  /\ InitCommon
  /\ clsBody = Null
  /\ bkIn = Null
  /\ cacheLog = Null
  /\ params = BaseParams
  /\ serial = FALSE
  /\ env = [net |-> {}, statuses |-> {}, hdrs |-> {}, errStatuses |-> {401}, ops |-> MaxOps,
            kinds |-> {"getCurrentGlucoseReading"}, clock |-> 0, healthy |-> FALSE]

NextRace ==
  \/ Construct
  \/ \E p \in Procs : Start(p)
  \/ \E p \in Procs : Return(p)
  \/ \E p \in Procs : AfterCacheGet(p)
  \/ \E p \in Procs : AuthResponds(p)
  \/ \E p \in Procs : LoginResponds(p)
  \/ \E p \in Procs : AfterCacheSet(p)
  \/ \E p \in Procs : ReadResponds(p)
  \/ \E p \in Procs : Catch(p)
  \/ \E p \in Procs : AfterCacheClear(p)

SpecRace == InitRace /\ [][NextRace]_vars

\* ------------------------------------------------------------------------
\* One read operation whose every request, sleep and cache operation
\* returns: whatever an operation awaits is eventually answered.
\* ------------------------------------------------------------------------
InitLive ==
  /\ InitCommon
  /\ clsBody = Null
  /\ bkIn = Null
  /\ cacheLog = Null
  /\ params \in {[q EXCEPT !.retry = RetryOptions(n, FALSE), !.cache = c] :
                   q \in {ByUsername(BaseParams), ByAccountId(BaseParams)},
                   n \in 0..MaxRetries, c \in {NewCache, [id |-> Str(TOK1), expiresAt |-> 2]}}
  /\ serial = TRUE
  /\ env = [net |-> {Err("NetworkError", "ECONNRESET")}, statuses |-> {503},
            hdrs |-> {NoHeader, NumHeader(2)}, errStatuses |-> {401}, ops |-> 1,
            kinds |-> OpKinds, clock |-> 1, healthy |-> FALSE]

\* The continuations of p's operation: the answer of what it awaits.
Progress(p) ==
  \/ AfterCacheGet(p)
  \/ FetchRejects(p)
  \/ FetchRetryable(p)
  \/ AfterSleep(p)
  \/ AuthResponds(p)
  \/ LoginResponds(p)
  \/ AfterCacheSet(p)
  \/ ReadResponds(p)
  \/ Catch(p)
  \/ AfterCacheClear(p)

SpecLive == InitLive /\ [][Next]_vars /\ \A p \in Procs : WF_vars(Progress(p))

\* ------------------------------------------------------------------------
\* Properties
\* ------------------------------------------------------------------------
\* How the client was configured.
UsernameConfigured == Truthy(params.username) /\ ~Truthy(params.accountId)
AccountIdConfigured == Truthy(params.accountId) /\ ~Truthy(params.username)

\* A configuration that can log in: a password, and a username or a
\* well-formed accountId that is not the all-zero identifier.
CanLogIn ==
  /\ IsStr(params.password) /\ Truthy(params.password)
  /\ \/ UsernameConfigured
     \/ /\ AccountIdConfigured
        /\ params.accountId \in {Str(id) : id \in GoodIds}

\* minutes an integer in [1,1440], maxCount an integer in [1,288] (in halves).
ValidMinutes == {2 * k : k \in 1..1440}
ValidMaxCount == {2 * k : k \in 1..288}
ValidArgs(r) == r.minutes \in ValidMinutes /\ r.maxCount \in ValidMaxCount

\* The success response carrying the all-zero identifier.
SentinelResponse == [status |-> 200, body |-> JsonBody(Str(DEFAULT_UUID))]
SentinelFrom(ep, r) == r.last # Null /\ r.last = [ep |-> ep, res |-> SentinelResponse]

\* The error a session rejection stands for.
SessionErrorOf(res) ==
  IF res.body.data.Code = Str("SessionIdNotFound")
  THEN SessionError(SESSION_NOT_FOUND)
  ELSE SessionError(SESSION_INVALID)

\* C1: a username-configured client with the default in-memory cache and a
\* server that always succeeds: when the second of two sequential read
\* operations, started before the session TTL elapsed, is over, the client
\* has sent exactly one account-authentication request, one session-login
\* request and two readings requests.
C1_TwoCallsOneLogin ==
  (/\ serial
   /\ UsernameConfigured
   /\ params.cache = NewCache
   /\ clean
   /\ opsStarted = 2
   /\ proc[1].pc = "done"
   /\ proc[1].age >= 0
   /\ proc[1].age < sessionTtlMs)
  => total = [e \in Endpoints |-> IF e = READ THEN 2 ELSE 1]

\* The second operation started one tick after the login and resolved.
C1_Witness ==
  /\ serial /\ UsernameConfigured /\ params.cache = NewCache /\ clean
  /\ opsStarted = 2
  /\ proc[1].pc = "done"
  /\ proc[1].age = 1
  /\ proc[1].age < sessionTtlMs
  /\ proc[1].result.state = "resolved"
  /\ total[READ] = 2

\* C2: when the first readings request of an operation is answered by a
\* session error and every other request succeeds, the client clears the
\* cache, logs in once more, sends the readings request a second time with
\* the identifier that login returned, and resolves with what the second
\* response holds; the cache then holds that identifier.
C2_SelfHealing ==
  \A p \in Procs :
    LET r == proc[p] IN
    /\ (serial /\ r.pc = "cacheClear") => cache.id = Null
    /\ (CanLogIn /\ r.pc = "done" /\ r.happy /\ r.sessRej = 1) =>
         /\ r.cleared = 1
         /\ r.atClear[READ] = 1
         /\ r.calls[READ] = 2
         /\ r.calls[LOGIN] = r.atClear[LOGIN] + 1
         /\ r.sent = Payload(READ, r.issued, r)
         /\ r.last.ep = READ
         /\ r.result = Resolved(OpValue(r.op, r.last.res.body.data))
         /\ serial => cache.id = r.issued

\* The session held was rejected, the new login returned another
\* identifier, and the operation resolved with one reading.
C2_Witness ==
  \E p \in Procs :
    LET r == proc[p] IN
    /\ CanLogIn /\ r.pc = "done" /\ r.happy /\ r.sessRej = 1
    /\ r.op = "getGlucoseReadings"
    /\ r.sessionId = Str(TOK2)
    /\ cache.id = Str(TOK2)
    /\ r.calls[LOGIN] = 2
    /\ r.result = Resolved(Arr(<<[mgDl |-> 85]>>))

\* C3: there is one session retry per operation.  No operation sees more
\* than two session rejections or sends more than two readings calls; when
\* every readings request is answered by a session error (and every other
\* request succeeds) the operation makes exactly two readings requests and
\* then fails with the SessionError of the second answer.
C3_SingleSessionRetry ==
  \A p \in Procs :
    LET r == proc[p] IN
    /\ r.sessRej <= 2
    /\ r.calls[READ] <= 2
    /\ r.cleared <= 1
    /\ (r.happy /\ r.pc = "fetch") => r.attempt = 1
    /\ (CanLogIn /\ r.pc = "done" /\ r.happy /\ r.calls[READ] >= 1
          /\ r.sessRej = r.calls[READ]) =>
         /\ r.calls[READ] = 2
         /\ r.cleared = 1
         /\ r.result = Rejected(SessionErrorOf(r.last.res))

\* Two rejections, the second with Code SessionIdNotFound: its error is thrown.
C3_Witness ==
  \E p \in Procs :
    LET r == proc[p] IN
    /\ CanLogIn /\ r.pc = "done" /\ r.happy /\ r.sessRej = 2
    /\ r.calls[READ] = 2
    /\ r.last.res.body.data.Code = Str("SessionIdNotFound")
    /\ r.result = Rejected(SessionError(SESSION_NOT_FOUND))

\* C4: an operation that starts when the session TTL has elapsed since the
\* last cache.set finds the cache empty, and sends a session-login request
\* before any readings request; the readings request carries the identifier
\* of that login.
C4_TtlExpiry ==
  \A p \in Procs :
    LET r == proc[p] IN
    (serial /\ r.age >= 0 /\ r.age >= sessionTtlMs) =>
      /\ (r.pc = "cacheGet" /\ ~r.retried) => r.cached = Null
      /\ r.calls[READ] >= 1 => r.calls[LOGIN] >= 1
      /\ (r.pc = "fetch" /\ r.endpoint = READ) => r.sent.id = r.issued
      /\ (r.pc = "done" /\ ValidArgs(r)) => r.calls[LOGIN] >= 1

\* The TTL of 2 elapsed, and the second operation logged in and resolved.
C4_Witness ==
  \E p \in Procs :
    LET r == proc[p] IN
    /\ serial /\ sessionTtlMs = 2 /\ r.age = 2
    /\ opsStarted = 2
    /\ r.pc = "done"
    /\ r.calls[LOGIN] = 1
    /\ r.calls[READ] = 1
    /\ r.result.state = "resolved"

\* C5, the state after the response: the all-zero identifier from account
\* authentication fails the operation with "Account ID default" and no
\* session-login or further readings request is sent; from session login it
\* fails the operation with "Session ID default" and no further readings
\* request is sent.
C5_SentinelFails ==
  \A p \in Procs :
    LET r == proc[p] IN
    /\ SentinelFrom(AUTH, r) =>
         /\ r.pc \in {"catch", "done"}
         /\ r.pc = "catch" => r.err = ArgumentError(ACCOUNT_ID_DEFAULT)
         /\ r.pc = "done" => r.result = Rejected(ArgumentError(ACCOUNT_ID_DEFAULT))
         /\ r.calls[LOGIN] = 0
         /\ r.calls[READ] = r.atClear[READ]
    /\ SentinelFrom(LOGIN, r) =>
         /\ r.pc \in {"catch", "done"}
         /\ r.pc = "catch" => r.err = ArgumentError(SESSION_ID_DEFAULT)
         /\ r.pc = "done" => r.result = Rejected(ArgumentError(SESSION_ID_DEFAULT))
         /\ r.calls[READ] = r.atClear[READ]

\* C5, the steps: while the all-zero identifier is the last response of an
\* operation, no step writes to the cache.
C5_NoCacheWrite ==
  \A p \in Procs :
    (serial /\ SentinelFrom(LOGIN, proc'[p])) => (cache' = cache /\ setAt' = setAt)

\* C5: sentinel rejection.  The all-zero identifier returned by account
\* authentication fails the call with ArgumentError "Account ID default"
\* without a session-login or readings request; returned by session login it
\* fails the call with ArgumentError "Session ID default" without a readings
\* request and without a write to the cache.
C5_SentinelRejection == []C5_SentinelFails /\ [][C5_NoCacheWrite]_vars

\* Session login answered with the all-zero identifier; the call failed.
C5_Witness ==
  \E p \in Procs :
    LET r == proc[p] IN
    /\ SentinelFrom(LOGIN, r)
    /\ r.pc = "done"
    /\ r.result = Rejected(ArgumentError(SESSION_ID_DEFAULT))
    /\ r.calls[READ] = 0
    /\ cache = NewCache

\* C6, the state of an operation: with valid arguments no argument error
\* about minutes or maxCount arises; otherwise the operation is over at
\* once, rejected with the error of minutes if minutes is invalid and of
\* maxCount if only maxCount is, having read no cache and sent no request.
C6_ArgumentsChecked ==
  \A p \in Procs :
    LET r == proc[p]
        argErrors == {ArgumentError(MINUTES_INVALID), ArgumentError(MAX_COUNT_INVALID)}
    IN r.pc # "idle" =>
         IF ValidArgs(r)
         THEN r.err \notin argErrors /\ r.result.err \notin argErrors
         ELSE /\ r.pc = "done"
              /\ r.result =
                   Rejected(ArgumentError(IF r.minutes \notin ValidMinutes
                                          THEN MINUTES_INVALID ELSE MAX_COUNT_INVALID))
              /\ r.calls = ZeroCalls
              /\ r.sent = Null
              /\ r.cached = Null
              /\ r.sessionId = Null

\* C6, the step that starts an operation with invalid arguments: the
\* client's fields and the cache stay as they are.
C6_RejectedUntouched ==
  \A p \in Procs :
    (proc[p].pc = "idle" /\ proc'[p].pc # "idle" /\ ~ValidArgs(proc'[p])) =>
      UNCHANGED <<username, accountId, password, cache, setAt>>

\* C6: getGlucoseReadings(minutes, maxCount) raises no argument error for
\* an integer minutes in [1,1440] and an integer maxCount in [1,288]; for
\* every other pair it fails with ArgumentError, minutes checked first,
\* before any cache access or request, leaving client and cache unchanged.
C6_ArgumentValidation == []C6_ArgumentsChecked /\ [][C6_RejectedUntouched]_vars

\* minutes 1.5 and maxCount 289, both invalid: the minutes error.
C6_Witness ==
  \E p \in Procs :
    LET r == proc[p] IN
    /\ r.pc = "done"
    /\ r.minutes = 3
    /\ r.maxCount = 578
    /\ r.result = Rejected(ArgumentError(MINUTES_INVALID))

\* A value that is there: not undefined, not null, not the empty string.
Present(v) == v \notin {Undef, Null, Str("")}

\* C7: once the constructor has run: an unsupported region made it throw
\* ArgumentError (region invalid), whatever the identity fields; else no
\* username and no accountId (an empty username is none) made it throw
\* ArgumentError (user id required) and both made it throw ArgumentError
\* (user id multiple); a client whose constructor threw has used no network.
C7_ConstructionRefuses ==
  ctor # "new" =>
    /\ IF params.region \notin {"us", "ous", "jp"}
       THEN ctor = "failed" /\ ctorErr = ArgumentError(REGION_INVALID)
       ELSE IF ~Present(params.username) /\ ~Present(params.accountId)
       THEN ctor = "failed" /\ ctorErr = ArgumentError(USER_ID_REQUIRED)
       ELSE IF Present(params.username) /\ Present(params.accountId)
       THEN ctor = "failed" /\ ctorErr = ArgumentError(USER_ID_MULTIPLE)
       ELSE TRUE
    /\ ctor = "failed" =>
         /\ opsStarted = 0
         /\ \A p \in Procs : proc[p] = IdleProc
         /\ total = ZeroCalls

\* A supported region and an empty username without accountId.
C7_Witness ==
  /\ ctor = "failed"
  /\ params.region = "us"
  /\ params.username = Str("")
  /\ params.accountId = Undef
  /\ ctorErr = ArgumentError(USER_ID_REQUIRED)

\* C8: for a client constructed with an empty password, every read
\* operation (with valid arguments) sends no request and fails with
\* ArgumentError "Password must be non-empty string".
C8_EmptyPasswordRefused ==
  \A p \in Procs :
    LET r == proc[p] IN
    (ctor = "ok" /\ params.password = Str("") /\ ValidArgs(r)) =>
      /\ r.calls = ZeroCalls
      /\ r.pc = "done" => r.result = Rejected(ArgumentError(PASSWORD_INVALID))

\* C9: a client constructed with accountId and no username keeps that
\* accountId, never calls the account-authentication endpoint, and every
\* session-login request it sends carries the accountId it was given; after
\* a cache miss its first request is the session login.
C9_NoAccountLookup ==
  (ctor = "ok" /\ AccountIdConfigured) =>
    /\ accountId = params.accountId
    /\ total[AUTH] = 0
    /\ \A p \in Procs :
         LET r == proc[p] IN
         /\ r.calls[AUTH] = 0
         /\ r.endpoint # AUTH
         /\ (r.pc = "fetch" /\ r.endpoint = LOGIN) =>
              r.sent = Payload(LOGIN, params.accountId, r)
         /\ (r.pc = "fetch" /\ r.cached = Null) => r.calls[LOGIN] >= 1

\* The second operation of such a client: the TTL had elapsed, it logged
\* in, the session was rejected, it logged in again.
C9_Witness ==
  \E p \in Procs :
    LET r == proc[p] IN
    /\ ctor = "ok" /\ AccountIdConfigured
    /\ opsStarted = 2
    /\ r.age >= sessionTtlMs /\ r.age >= 0
    /\ r.pc = "done"
    /\ r.cleared = 1
    /\ r.calls[LOGIN] = 2
    /\ r.calls[AUTH] = 0

\* The Message values of the model that contain one of the two phrases.
CannotAuthenticateMessages ==
  {Str("Cannot Authenticate by AccountName"), Str("Cannot Authenticate by AccountId"),
   Str("x Cannot Authenticate by AccountName x"),
   Str("x Cannot Authenticate by AccountId x")}

\* C10: the classifier's rows keyed by Code.  SessionIdNotFound gives
\* SessionError (not found), SessionNotValid SessionError (invalid),
\* AccountPasswordInvalid AccountError (failed authentication) and
\* SSO_AuthenticateMaxAttemptsExceeded AccountError (max attempts), whatever
\* the Message; SSO_InternalError gives AccountError (failed
\* authentication) exactly when the Message contains one of the two
\* "Cannot Authenticate by ..." phrases.
C10_CodeRows ==
  (clsResult # NoError /\ clsBody.t = "obj") =>
    /\ clsBody.Code = Str("SessionIdNotFound") =>
         clsResult = SessionError(SESSION_NOT_FOUND)
    /\ clsBody.Code = Str("SessionNotValid") =>
         clsResult = SessionError(SESSION_INVALID)
    /\ clsBody.Code = Str("AccountPasswordInvalid") =>
         clsResult = AccountError(ACCOUNT_FAILED_AUTHENTICATION)
    /\ clsBody.Code = Str("SSO_AuthenticateMaxAttemptsExceeded") =>
         clsResult = AccountError(ACCOUNT_MAX_ATTEMPTS)
    /\ clsBody.Code = Str("SSO_InternalError") =>
         (clsResult = AccountError(ACCOUNT_FAILED_AUTHENTICATION)
            <=> clsBody.Message \in CannotAuthenticateMessages)

\* SessionIdNotFound with an unrelated Message was classified.
C10_Witness ==
  /\ clsBody = Obj(Str("SessionIdNotFound"), Str("Cannot Authenticate by AccountName"))
  /\ clsResult = SessionError(SESSION_NOT_FOUND)

\* The Message values of the model that contain "accountName", "password"
\* and "UUID" (matching is case-sensitive: "Password" contains none).
AccountNameMessages == {Str("accountName"), Str("accountName password UUID")}
PasswordMessages ==
  {Str("password"), Str("accountName password UUID"), Str("password UUID")}
UuidMessages ==
  {Str("UUID"), Str("accountName password UUID"), Str("password UUID"),
   Str("bad UUID format")}

\* C11: the classifier's InvalidArgument rows.  For Code InvalidArgument
\* and a Message that is a string, a Message containing "accountName" gives
\* ArgumentError (username invalid); else one containing "password" gives
\* ArgumentError (password invalid); else one containing "UUID" gives
\* ArgumentError (account id invalid): the first substring in that order
\* decides.
C11_InvalidArgumentRows ==
  (/\ clsResult # NoError
   /\ clsBody.t = "obj"
   /\ clsBody.Code = Str("InvalidArgument")
   /\ IsStr(clsBody.Message)) =>
    IF clsBody.Message \in AccountNameMessages
    THEN clsResult = ArgumentError(USERNAME_INVALID)
    ELSE IF clsBody.Message \in PasswordMessages
    THEN clsResult = ArgumentError(PASSWORD_INVALID)
    ELSE IF clsBody.Message \in UuidMessages
    THEN clsResult = ArgumentError(ACCOUNT_ID_INVALID)
    ELSE clsResult \notin {ArgumentError(USERNAME_INVALID),
                           ArgumentError(PASSWORD_INVALID),
                           ArgumentError(ACCOUNT_ID_INVALID)}

\* A Message with all three substrings was classified by "accountName".
C11_Witness ==
  /\ clsBody = Obj(Str("InvalidArgument"), Str("accountName password UUID"))
  /\ clsResult = ArgumentError(USERNAME_INVALID)

\* Does the body match one of the rows keyed by Code (and Message)?
MatchesEarlierRow(body) ==
  /\ body.t = "obj"
  /\ \/ body.Code \in {Str("SessionIdNotFound"), Str("SessionNotValid"),
                       Str("AccountPasswordInvalid"),
                       Str("SSO_AuthenticateMaxAttemptsExceeded")}
     \/ /\ body.Code = Str("SSO_InternalError")
        /\ body.Message \in CannotAuthenticateMessages
     \/ /\ body.Code = Str("InvalidArgument")
        /\ body.Message \in AccountNameMessages \cup PasswordMessages \cup UuidMessages

\* The results the decision table lists.
ListedResults ==
  {SessionError(SESSION_NOT_FOUND), SessionError(SESSION_INVALID),
   AccountError(ACCOUNT_FAILED_AUTHENTICATION), AccountError(ACCOUNT_MAX_ATTEMPTS),
   ArgumentError(USERNAME_INVALID), ArgumentError(PASSWORD_INVALID),
   ArgumentError(ACCOUNT_ID_INVALID),
   ServerError(SERVER_UNKNOWN_CODE), ServerError(SERVER_UNEXPECTED)}

\* C12: the classifier's fallbacks and totality.  Every body yields one of
\* the listed results; a body that matches no earlier row yields ServerError
\* (unknown code) when it is an object whose Code and Message are both
\* non-empty, and ServerError (unexpected response) otherwise.
C12_FallbacksTotal ==
  clsResult # NoError =>
    /\ clsResult \in ListedResults
    /\ ~MatchesEarlierRow(clsBody) =>
         clsResult =
           IF clsBody.t = "obj" /\ Truthy(clsBody.Code) /\ Truthy(clsBody.Message)
           THEN ServerError(SERVER_UNKNOWN_CODE)
           ELSE ServerError(SERVER_UNEXPECTED)

\* Is the step one in which fetchWithRetry returns a response to p's operation?
ReturnsResponse(p) == proc'[p].got = proc[p].got + 1

\* No response with a status outside the retryable set is ever counted as a
\* failed attempt.
C13_NeverRetried ==
  \A p \in Procs : \A i \in 1..Len(proc[p].fails) :
    LET f == proc[p].fails[i]
    IN f.err = NoError => f.status \in {429, 500, 502, 503, 504}

\* A response is returned at the attempt it arrives on: the call has sent
\* one request per failed attempt and one more, it does not sleep, and the
\* next request, if any, is the first of a new call.
C13_ReturnedAtOnce ==
  \A p \in Procs :
    ReturnsResponse(p) =>
      LET r == proc[p]
          r2 == proc'[p]
      IN /\ r.pc = "fetch"
         /\ r2.last.res.status \notin {429, 500, 502, 503, 504}
         /\ r.reqs = Len(r.fails) + 1
         /\ r.reqs = r.attempt
         /\ r.fails = <<>> => r.reqs = 1
         /\ r2.pc # "sleep"
         /\ r2.pc = "fetch" =>
              /\ r2.reqs = 1
              /\ r2.fails = <<>>
              /\ \E ep \in Endpoints : r2.calls[ep] = r.calls[ep] + 1
         /\ r2.pc # "fetch" => r2.took = r.reqs

\* C13: a response whose status is not in the retryable set
\* {429, 500, 502, 503, 504} is returned to the caller immediately, on
\* whichever attempt it arrives, with no sleep and no further request; a
\* terminal status on the first attempt (418) means exactly one request.
C13_TerminalReturned == []C13_NeverRetried /\ [][C13_ReturnedAtOnce]_vars

\* A 418 arrived on the second attempt of a call and the call ended with
\* two requests sent.
C13_Witness ==
  \E p \in Procs :
    /\ proc[p].pc = "catch"
    /\ proc[p].last # Null
    /\ proc[p].last.res.status = 418
    /\ proc[p].took = 2

\* Did every attempt of r's call end in a network failure?
AllNetwork(r) ==
  /\ r.fails # <<>>
  /\ \A i \in 1..Len(r.fails) : r.fails[i].err # NoError

\* fetchWithRetry has thrown: every attempt of r's call failed.
Exhausted(r) == r.pc = "catch" /\ r.fails # <<>>

\* C14: with max attempts N >= 1, a request that fails at network level on
\* every attempt is issued exactly N times (and no call ever sends more
\* than N requests), a backoff sleep follows each of the first N-1 failures
\* and none the Nth, and the call fails with the error of the Nth attempt.
C14_NetworkFailures ==
  \A p \in Procs :
    LET r == proc[p]
        N == retries
    IN /\ r.reqs <= N
       /\ (Exhausted(r) /\ AllNetwork(r)) =>
            /\ N >= 1
            /\ r.reqs = N
            /\ Len(r.fails) = N
            /\ Len(r.slept) = N - 1
            /\ \A i \in 1..(N - 1) :
                 /\ r.slept[i].a = i
                 /\ r.slept[i].ms \in backoff(i, baseDelayMs, maxDelayMs, jitter)
            /\ r.err = r.fails[N].err

\* Three attempts failed, the first by a reset and the last by a timeout,
\* and the timeout is what the call threw.
C14_Witness ==
  \E p \in Procs :
    /\ Exhausted(proc[p])
    /\ AllNetwork(proc[p])
    /\ Len(proc[p].fails) = 3
    /\ proc[p].fails[1].err = Err("NetworkError", "ECONNRESET")
    /\ proc[p].fails[3].err = Err("NetworkError", "ETIMEDOUT")
    /\ proc[p].err = Err("NetworkError", "ETIMEDOUT")
    /\ Len(proc[p].slept) = 2

\* A response is returned after k < N failed attempts and exactly k + 1
\* requests, and the return itself clears no cache, starts no second try
\* and does not repeat the call.
C15_AfterFaults ==
  \A p \in Procs :
    ReturnsResponse(p) =>
      LET r == proc[p]
          r2 == proc'[p]
          k == Len(r.fails)
      IN /\ k < retries
         /\ r.attempt = k + 1
         /\ r.reqs = k + 1
         /\ r2.took \in {0, k + 1}
         /\ r2.cleared = r.cleared
         /\ r2.retried = r.retried
         /\ r2.calls[r.endpoint] = r.calls[r.endpoint]
         /\ cache' = cache \/ (r.endpoint = LOGIN /\ Happy(LOGIN, r2.last.res))

\* An operation whose calls were all answered with the endpoint's success,
\* after however many transport faults, resolves with the readings of the
\* response, having called every endpoint at most once and cleared nothing.
C15_OperationUnaware ==
  \A p \in Procs :
    LET r == proc[p]
    IN (r.pc = "done" /\ r.rok /\ r.last # Null /\ r.last.ep = READ) =>
         /\ r.result = Resolved(OpValue(r.op, r.last.res.body.data))
         /\ r.took \in 1..retries
         /\ r.calls[READ] = 1
         /\ r.calls[LOGIN] <= 1
         /\ r.calls[AUTH] <= 1
         /\ r.cleared = 0
         /\ ~r.retried

\* C15: if attempts 1..k (k < max attempts) each end in a network failure or
\* a retryable status and attempt k+1 receives a non-retryable response,
\* the transport returns that response after exactly k+1 requests, and the
\* read operation succeeds without re-authentication: the session layer
\* does not see the retries.
C15_Recovery == []C15_OperationUnaware /\ [][C15_AfterFaults]_vars

\* An operation resolved although faults occurred; its readings call took
\* three requests, and it logged in once and read once.
C15_Witness ==
  \E p \in Procs :
    LET r == proc[p]
    IN /\ r.pc = "done"
       /\ r.result.state = "resolved"
       /\ r.rok
       /\ ~r.happy
       /\ r.last.ep = READ
       /\ r.took = 3
       /\ r.calls = [e \in Endpoints |-> 1]

\* The sleeps of r's call, each with the failed attempt it followed.
SleepsOf(r) ==
  {[ms |-> r.slept[i].ms, a |-> r.slept[i].a, f |-> r.fails[r.slept[i].a]] :
     i \in 1..Len(r.slept)}

\* C16: every delay the transport sleeps, taken from a retry hint (any
\* header value, very large and negative numbers included) or computed by
\* backoff, is at least 0 and at most maxDelayMs; a numeric hint of s
\* seconds gives a sleep of min(1000 * s, maxDelayMs) milliseconds.
C16_DelaysWithinCap ==
  \A p \in Procs : \A s \in SleepsOf(proc[p]) :
    /\ 0 <= s.ms
    /\ s.ms <= maxDelayMs
    /\ (s.f.err = NoError /\ s.f.hdr.kind = "num") =>
         s.ms = Min(1000 * s.f.hdr.n, maxDelayMs)

\* C17: after a retryable status whose retry hint is absent or unparseable,
\* on an attempt that is not the final one, the transport sleeps exactly the
\* backoff for this attempt number, min(cap, base * 2^(attempt-1)) with
\* jitter applied if enabled, for every attempt number.
C17_FallbackIsBackoff ==
  \A p \in Procs : \A s \in SleepsOf(proc[p]) :
    (/\ s.f.err = NoError
     /\ s.f.hdr.kind \in {"absent", "empty", "text"}
     /\ s.a < retries) =>
      s.ms \in backoff(s.a, baseDelayMs, maxDelayMs, jitter)

\* C18: after a retryable status whose retry hint is an HTTP-date, the
\* transport sleeps the difference between that date and now, at least zero
\* (a past date means no wait) and at most the cap.
C18_DateHint ==
  \A p \in Procs : \A s \in SleepsOf(proc[p]) :
    (s.f.err = NoError /\ s.f.hdr.kind = "date") =>
      s.ms = IF s.f.hdr.n <= 0 THEN 0 ELSE Min(1000 * s.f.hdr.n, maxDelayMs)

\* C19: when all N >= 1 attempts are used up, the error thrown comes from
\* the last attempt: Error "HTTP <status>" if it ended in a retryable
\* status, the network error itself if it ended in a network failure,
\* whatever the earlier attempts ended in.
C19_LastFailureThrown ==
  \A p \in Procs :
    LET r == proc[p]
        N == Len(r.fails)
    IN Exhausted(r) =>
         /\ N = retries
         /\ r.reqs = N
         /\ IF r.fails[N].err # NoError
            THEN r.err = r.fails[N].err
            ELSE /\ r.err.kind = "Error"
                 /\ r.fails[N].status = 429 => r.err.code = "HTTP 429"
                 /\ r.fails[N].status = 503 => r.err.code = "HTTP 503"
                 /\ r.fails[N].status \in {429, 503}

\* Three attempts ended in a network failure, a 503 and a 429, and the call
\* threw Error "HTTP 429".
C19_Witness ==
  \E p \in Procs :
    LET r == proc[p]
    IN /\ Exhausted(r)
       /\ Len(r.fails) = 3
       /\ r.fails[1].err = Err("NetworkError", "ETIMEDOUT")
       /\ r.fails[2].status = 503
       /\ r.fails[3].status = 429
       /\ r.err = Err("Error", "HTTP 429")

\* base * 2^(attempt-1), by repeated doubling.
RECURSIVE Doubled(_, _)
Doubled(base, attempt) == IF attempt <= 1 THEN base ELSE 2 * Doubled(base, attempt - 1)

\* C20: for every attempt >= 1, base >= 0 and cap >= 0, the delay before
\* jitter is min(cap, base * 2^(attempt-1)), never exceeds the cap and does
\* not decrease with the attempt number; with jitter the delay returned lies
\* in [0, delay before jitter], without jitter it is the delay before jitter.
C20_BackoffCalculator ==
  bkOut # Null =>
    LET grown == Doubled(bkIn.base, bkIn.attempt)
    IN /\ bkOut.raw = IF grown <= bkIn.max THEN grown ELSE bkIn.max
       /\ bkOut.raw <= bkIn.max
       /\ bkOut.raw <= bkOut.next
       /\ bkIn.jitter => (0 <= bkOut.delay /\ bkOut.delay <= bkOut.raw)
       /\ ~bkIn.jitter => bkOut.delay = bkOut.raw

\* The cap binds at the third attempt and jitter returned a delay strictly
\* inside the interval.
C20_Witness ==
  /\ bkOut # Null
  /\ bkIn = [attempt |-> 3, base |-> 3, max |-> MaxCap - 2, jitter |-> TRUE]
  /\ bkOut.raw = MaxCap - 2
  /\ 0 < bkOut.delay
  /\ bkOut.delay < bkOut.raw

\* What get() has to return at time t by the calls made so far: the token of
\* the last set() if no clear() followed it and t is before the time of
\* that set plus max(0, ttl); no value otherwise.
Readable(t) ==
  IF /\ cacheLog.set
     /\ ~cacheLog.cleared
     /\ t < cacheLog.at + (IF cacheLog.ttlMs > 0 THEN cacheLog.ttlMs ELSE 0)
  THEN cacheLog.id
  ELSE Null

\* The cache answers by the last set and clear alone, at every time; a set
\* with ttl <= 0 is never readable; set has replaced entry and expiry; after
\* clear nothing is stored, however often it is called.
C21_CacheAnswers ==
  /\ \A t \in 0..(MaxClock + 4) : CacheGet(cache, t) = Readable(t)
  /\ cacheLog.op = "get" => cacheLog.ret = Readable(cacheLog.when)
  /\ (cacheLog.set /\ cacheLog.ttlMs <= 0) => CacheGet(cache, now) = Null
  /\ cacheLog.op = "set" =>
       cache = [id |-> cacheLog.id,
                expiresAt |-> cacheLog.at + (IF cacheLog.ttlMs > 0 THEN cacheLog.ttlMs ELSE 0)]
  /\ cacheLog.cleared => \A t \in 0..(MaxClock + 4) : CacheGet(cache, t) = Null
  /\ cacheLog.op = "clear" => cache = NewCache

\* get() leaves the stored entry as it is.
C21_GetFrame == (cacheLog'.op = "get" /\ cacheLog' # cacheLog) => cache' = cache

\* C21: after any sequence of get, set, clear and clock advances, get()
\* returns the token of the most recent set(token, ttl) if and only if no
\* clear() happened since and now < time of that set + max(0, ttl), and no
\* value otherwise; so a set with ttl <= 0 is never readable, set overwrites
\* entry and expiry, clear removes the entry unconditionally and is
\* idempotent, and get never changes the entry.
C21_MemoryCache == []C21_CacheAnswers /\ [][C21_GetFrame]_vars

\* A second set replaced a first one, time passed within its TTL, and get()
\* returned the second token.
C21_Witness ==
  /\ cacheLog # Null
  /\ cacheLog.op = "get"
  /\ cacheLog.ret = Str(TOK2)
  /\ cacheLog.ttlMs = 2
  /\ cacheLog.at = 1
  /\ cacheLog.when = 2

\* The tokens of the model that are UUID-shaped and not the all-zero one.
UsableTokens == {Str(id) : id \in GoodIds}

\* The operation is past the cache.get() of its current try.
PastCacheGet(r) == r.pc \in {"fetch", "sleep", "cacheSet", "catch", "done"}

\* C22: ensureSession consults the cache first.  When the cache returns a
\* UUID-shaped token that is not the all-zero one, the try sends no
\* account-authentication and no session-login request and sends that very
\* token with the readings request; when it returns no value, a malformed
\* value or the all-zero identifier, no readings request is sent before a
\* session login succeeded and its identifier was stored, and that
\* identifier is the one sent.
C22_CacheFirst ==
  \A p \in Procs :
    LET r == proc[p]
    IN PastCacheGet(r) =>
         IF r.cached \in UsableTokens
         THEN /\ r.calls[AUTH] = r.atClear[AUTH]
              /\ r.calls[LOGIN] = r.atClear[LOGIN]
              /\ r.calls[READ] = r.atClear[READ] + 1
              /\ r.sent = Payload(READ, r.cached, r)
              /\ ~r.retried => r.sets = 0
         ELSE /\ (r.pc = "fetch" /\ r.calls[LOGIN] = r.atClear[LOGIN]) => r.endpoint = AUTH
              /\ r.pc = "cacheSet" => (cache.id = r.issued /\ r.sets >= 1)
              /\ r.calls[READ] > r.atClear[READ] =>
                   /\ r.calls[LOGIN] = r.atClear[LOGIN] + 1
                   /\ r.sets >= 1
                   /\ r.issued \in UsableTokens
                   /\ r.sent = Payload(READ, r.issued, r)

\* The client was given a cache holding a usable token: the operation
\* resolved after a single request, the readings request with that token.
C22_Witness ==
  \E p \in Procs :
    LET r == proc[p]
    IN /\ params.cache.id = Str(TOK1)
       /\ r.cached = Str(TOK1)
       /\ r.pc = "done"
       /\ r.result.state = "resolved"
       /\ r.calls = [e \in Endpoints |-> IF e = READ THEN 1 ELSE 0]
       /\ r.sent = Payload(READ, Str(TOK1), r)

\* The call of r to the endpoint ended in a response with a non-2xx status
\* that fetchWithRetry returned.
FailedByResponse(r) ==
  /\ r.fails = <<>>
  /\ r.took >= 1
  /\ r.last # Null
  /\ r.last.ep = r.endpoint
  /\ r.last.res.status # 200

\* The call of r ran out of attempts, the last of them answered by a
\* response with a retried status.
FailedByRetriedStatus(r) ==
  /\ r.fails # <<>>
  /\ r.fails[Len(r.fails)].err = NoError

TypedKinds == {"AccountError", "SessionError", "ArgumentError", "ServerError"}

\* C23: any HTTP-level failure during account authentication or session
\* login, i.e. a final response with a non-2xx status whether or not the
\* transport retries that status, is classified and raised as a typed error
\* (AccountError, SessionError, ArgumentError or ServerError), and the try
\* does not repeat the call.
C23_AuthFailuresTyped ==
  \A p \in Procs :
    LET r == proc[p]
    IN (/\ r.pc = "catch"
        /\ r.endpoint \in {AUTH, LOGIN}
        /\ FailedByResponse(r) \/ FailedByRetriedStatus(r)) =>
         /\ r.err.kind \in TypedKinds
         /\ (FailedByResponse(r) /\ r.last.res.body.kind = "json") =>
              r.err = handleErrorCode(r.last.res.body.data)
         /\ r.calls[r.endpoint] = r.atClear[r.endpoint] + 1

\* The catch block passes on an error that is not a SessionError: the
\* promise is rejected with it and nothing else changes.
C24_Rethrown ==
  \A p \in Procs :
    (/\ proc[p].pc = "catch"
     /\ proc[p].err.kind # "SessionError"
     /\ proc'[p] # proc[p]) =>
      /\ proc'[p] = [proc[p] EXCEPT !.pc = "done",
                                    !.result = [state |-> "rejected", value |-> Undef,
                                                err |-> proc[p].err]]
      /\ cache' = cache
      /\ accountId' = accountId

\* An operation rejected with an error that is not a SessionError cleared
\* the cache only if an earlier SessionError had started the second try;
\* rejected arguments sent nothing.
C24_NoRecovery ==
  \A p \in Procs :
    LET r == proc[p]
    IN (r.pc = "done" /\ r.result.state = "rejected"
        /\ r.result.err.kind # "SessionError") =>
         /\ r.cleared = (IF r.retried THEN 1 ELSE 0)
         /\ r.err # NoError => r.result.err = r.err
         /\ r.err = NoError => (~ValidArgs(r) /\ r.calls = ZeroCalls /\ r.sent = Null
                                /\ r.result.err.kind = "ArgumentError")

\* C24: every failure that is not a session error (network, argument,
\* account, unknown or unexpected server response, validation), raised
\* anywhere in a read operation, reaches the caller as the same error, with
\* no retry of the flow, no cache clear and no request after the failing one.
C24_NonSessionErrors == []C24_NoRecovery /\ [][C24_Rethrown]_vars

\* The readings request of a first try failed at network level: the
\* operation was rejected with that error after one call per endpoint.
C24_Witness ==
  \E p \in Procs :
    LET r == proc[p]
    IN /\ r.pc = "done"
       /\ r.result = Rejected(Err("NetworkError", "ECONNRESET"))
       /\ r.endpoint = READ
       /\ ~r.retried
       /\ r.cleared = 0
       /\ r.calls = [e \in Endpoints |-> 1]

\* The two shortcut operations, the arguments the claim gives them (in
\* halves), and the same operation record seen as a full read.
Shortcuts == {"getLatestGlucoseReading", "getCurrentGlucoseReading"}
ShortcutArgs(op) ==
  IF op = "getLatestGlucoseReading" THEN <<2 * 1440, 2 * 1>> ELSE <<2 * 10, 2 * 1>>
AsFullRead(r) == [r EXCEPT !.op = "getGlucoseReadings"]
FirstOf(list) == IF Len(list.items) > 0 THEN list.items[1] ELSE Undef

\* A shortcut starts as the full read with its arguments starts.
C25_Start ==
  \A p \in Procs :
    (proc[p].pc = "idle" /\ proc'[p].pc # "idle" /\ proc'[p].op \in Shortcuts) =>
      LET a == ShortcutArgs(proc'[p].op)
      IN AsFullRead(proc'[p]) = getGlucoseReadings("getGlucoseReadings", a[1], a[2])

\* A shortcut ends as the full read ends: rejected with the error of the
\* catch block, or resolved with the first decoded reading of the list the
\* full read resolves with, undefined when that list is empty.
C25_Outcome ==
  \A p \in Procs :
    (proc[p].op \in Shortcuts /\ proc[p].pc # "done" /\ proc'[p].pc = "done") =>
      IF proc[p].pc = "catch"
      THEN proc'[p].result = Rejected(proc[p].err)
      ELSE LET got == fetchRawReadings(proc'[p].last.res)
           IN /\ proc[p].pc = "fetch"
              /\ proc[p].endpoint = READ
              /\ ~got.thrown
              /\ proc'[p].result =
                   Resolved(FirstOf(OpValue("getGlucoseReadings", got.data)))

\* Between its start and its end a shortcut does what the full read does
\* in its place: the same session steps, requests, attempts and retry
\* decision, with the shortcut's arguments in the readings request.
C25_SameFlow ==
  \A p \in Procs :
    LET r == proc[p]
        g == AsFullRead(proc[p])
    IN r.op \in Shortcuts =>
         /\ <<r.minutes, r.maxCount>> = ShortcutArgs(r.op)
         /\ r.pc \in {"cacheGet", "cacheClear"} => ensureSession(g) = AsFullRead(ensureSession(r))
         /\ r.pc = "cacheSet" =>
              IssueFetch(g, READ, g.sessionId) = AsFullRead(IssueFetch(r, READ, r.sessionId))
         /\ r.pc = "fetch" =>
              /\ r.sent = Payload(r.endpoint, r.sent.id, g)
              /\ NextAttempt(g) = AsFullRead(NextAttempt(r))
              /\ \A res \in TerminalResponses(r.endpoint) :
                   Returned(g, res) = AsFullRead(Returned(r, res))
         /\ r.pc = "catch" => RetriesSession(g) = RetriesSession(r)

\* C25: getLatestGlucoseReading is the full read with (1440, 1) and
\* getCurrentGlucoseReading the full read with (10, 1): the same requests,
\* side effects and failures, resolving with the first element of the full
\* read's list, or with the absent value when the list is empty.
C25_Shortcuts == []C25_SameFlow /\ [][C25_Start /\ C25_Outcome]_vars

\* getLatestGlucoseReading asked for 1440 minutes, was answered with two
\* readings and resolved with the first.
C25_Witness ==
  \E p \in Procs :
    LET r == proc[p]
    IN /\ r.pc = "done"
       /\ r.op = "getLatestGlucoseReading"
       /\ r.result = Resolved(Decode(Reading(85)))
       /\ Len(r.last.res.body.data.items) = 2
       /\ r.sent.minutes = 2 * MAX_MINUTES

\* No operation fails, and a finished operation resolved after reading once
\* with a token a login of its own or the cache gave it.
C26_BothSucceed ==
  \A p \in Procs :
    LET r == proc[p]
    IN /\ r.pc # "catch"
       /\ r.pc = "done" =>
            /\ r.result.state = "resolved"
            /\ r.calls[READ] = 1
            /\ r.calls[LOGIN] <= 1
            /\ r.sent.id \in UsableTokens
            /\ r.calls[LOGIN] = 1 => r.sent.id = r.issued

\* The cache changes only when a login is answered, and it then holds the
\* token of that login whatever it held before: the last write stays.
LoginLands(p) ==
  /\ proc[p].pc = "fetch"
  /\ proc[p].endpoint = LOGIN
  /\ proc'[p].pc = "cacheSet"

C26_LastWriteLands ==
  /\ cache' # cache => \E p \in Procs : LoginLands(p)
  /\ \A p \in Procs :
       LoginLands(p) =>
         cache' = [id |-> proc'[p].issued, expiresAt |-> now + Max0(sessionTtlMs)]

\* C26: two read operations running concurrently on one client with an
\* empty cache and a server that always succeeds may both see the empty
\* cache and both log in; in every interleaving both succeed, and the cache
\* holds the token of the cache write that landed last.
C26_Unserialized == []C26_BothSucceed /\ [][C26_LastWriteLands]_vars

\* Both operations saw the empty cache, both logged in and were given
\* different tokens, both resolved, and the cache holds the token of one.
C26_Witness ==
  /\ \A p \in Procs :
       /\ proc[p].pc = "done"
       /\ proc[p].result.state = "resolved"
       /\ proc[p].cached = Null
       /\ proc[p].calls[LOGIN] = 1
  /\ proc[1].issued # proc[2].issued
  /\ cache.id = proc[1].issued
  /\ proc[1].age = -1 /\ proc[2].age = -1

\* Did the call r made last return a response whose body is not JSON?
Unparseable(r) == r.took >= 1 /\ r.last.res.body.kind = "bad"

\* A response whose body does not parse is thrown as ServerError
\* "invalid JSON" whatever its endpoint and status, and the step changes
\* neither the cache nor the account identifier.
C27_Thrown ==
  \A p \in Procs :
    (proc[p].pc = "fetch" /\ proc'[p].pc # "fetch" /\ Unparseable(proc'[p])) =>
      /\ proc'[p].pc = "catch"
      /\ proc'[p].err = ServerError(SERVER_INVALID_JSON)
      /\ proc'[p].err # handleErrorCode(Null)
      /\ proc'[p].err # ZodError
      /\ cache' = cache
      /\ accountId' = accountId

\* The catch block then only rejects the operation with that error: the
\* cache is not cleared and nothing is sent.
C27_NoRetry ==
  \A p \in Procs :
    (proc[p].pc = "catch" /\ Unparseable(proc[p]) /\ proc'[p] # proc[p]) =>
      /\ proc'[p] = Finish(proc[p], Rejected(ServerError(SERVER_INVALID_JSON)))
      /\ cache' = cache

\* C27: a response body that cannot be parsed as JSON makes the operation
\* fail with ServerError "Invalid or malformed JSON in server response", for
\* every endpoint and every final status, 2xx or not; the body reaches
\* neither the classifier nor the schema validator, and for the readings
\* endpoint the failure starts no session retry.
C27_InvalidJson == [][C27_Thrown /\ C27_NoRetry]_vars

\* The readings request of a first try was answered 401 with a body that
\* is not JSON: the operation was rejected and the cache keeps the token.
C27_Witness ==
  \E p \in Procs :
    LET r == proc[p]
    IN /\ r.pc = "done"
       /\ Unparseable(r)
       /\ r.last = [ep |-> READ, res |-> [status |-> 401, body |-> BadBody]]
       /\ r.result = Rejected(ServerError(SERVER_INVALID_JSON))
       /\ ~r.retried
       /\ r.cleared = 0
       /\ r.calls[READ] = 1
       /\ cache.id = r.issued

\* The last response of r came from ep with status 200 and a JSON body
\* that is not UUID-shaped.
ReturnedId(r, ep) ==
  /\ r.last # Null
  /\ r.last.ep = ep
  /\ r.last.res.status = 200
  /\ r.last.res.body.kind = "json"
  /\ ~isValidUUID(r.last.res.body.data)

FailureOf(r) == IF r.pc = "done" THEN r.result.err ELSE r.err

\* What follows a returned identifier that is not UUID-shaped, given the
\* error expected for it: the operation fails with that error, no further
\* request of the try was sent and the try wrote nothing to the cache.
IdRefused(r, ep, e) ==
  /\ r.pc \in {"catch", "done"}
  /\ FailureOf(r) = e
  /\ r.calls[READ] = r.atClear[READ]
  /\ ep = AUTH => r.calls[LOGIN] = r.atClear[LOGIN]
  /\ ep = LOGIN => r.sets <= r.cleared

C28_ReturnedIdsChecked ==
  \A p \in Procs :
    LET r == proc[p]
    IN /\ ReturnedId(r, AUTH) =>
            IdRefused(r, AUTH, IF zAuthStringOk(r.last.res.body.data)
                               THEN ArgumentError(ACCOUNT_ID_INVALID) ELSE ZodError)
       /\ ReturnedId(r, LOGIN) =>
            IdRefused(r, LOGIN, IF zAuthStringOk(r.last.res.body.data)
                                THEN ArgumentError(SESSION_ID_INVALID) ELSE ZodError)

\* A try that found no usable token in the cache, on a client whose known
\* account identifier is not UUID-shaped, throws at once; and the step in
\* which a login returns such a session identifier leaves the cache alone.
C28_KnownIdChecked ==
  \A p \in Procs :
    /\ (/\ proc[p].pc = "cacheGet"
        /\ proc'[p].pc # "cacheGet"
        /\ proc[p].cached \notin UsableTokens
        /\ Truthy(accountId)
        /\ ~isValidUUID(accountId)) =>
         /\ proc'[p] = Throw(proc[p], ArgumentError(ACCOUNT_ID_INVALID))
         /\ cache' = cache
    /\ (proc[p].pc = "fetch" /\ proc'[p].pc # "fetch" /\ ReturnedId(proc'[p], LOGIN)) =>
         cache' = cache

\* C28 (amended): when a try finds no usable token in the cache, a known
\* account identifier (caller-supplied, or returned by account
\* authentication and accepted by the response parse as 36 hex digits and
\* dashes) that is not UUID-shaped fails the operation with ArgumentError
\* "Account ID must be UUID" before any session-login request; a session
\* identifier the parse accepted that is not UUID-shaped fails it with
\* ArgumentError "Session ID must be UUID" before any readings request and
\* without a cache write; a returned identifier the parse rejects fails it
\* with the validator's error instead, equally before any further request.
C28_MalformedIds == []C28_ReturnedIdsChecked /\ [][C28_KnownIdChecked]_vars

\* C28 as stated: every account identifier that is not UUID-shaped, known
\* or returned, fails the operation with ArgumentError "Account ID must be
\* UUID", and every such session identifier with "Session ID must be UUID".
C28_AlwaysArgumentError ==
  \A p \in Procs :
    LET r == proc[p]
    IN /\ ReturnedId(r, AUTH) => IdRefused(r, AUTH, ArgumentError(ACCOUNT_ID_INVALID))
       /\ ReturnedId(r, LOGIN) => IdRefused(r, LOGIN, ArgumentError(SESSION_ID_INVALID))
       /\ (r.pc = "done" /\ ValidArgs(r) /\ Truthy(accountId) /\ ~isValidUUID(accountId)) =>
            /\ r.result = Rejected(ArgumentError(ACCOUNT_ID_INVALID))
            /\ r.calls[LOGIN] = r.atClear[LOGIN]

\* A username-configured client authenticated, and its login returned 36
\* hex digits without dashes: the operation was rejected with "Session ID
\* must be UUID", sent no readings request and the cache is empty.
C28_Witness ==
  \E p \in Procs :
    LET r == proc[p]
    IN /\ r.pc = "done"
       /\ r.last = [ep |-> LOGIN, res |-> [status |-> 200, body |-> JsonBody(Str(NODASH))]]
       /\ r.result = Rejected(ArgumentError(SESSION_ID_INVALID))
       /\ r.calls = [e \in Endpoints |-> IF e = READ THEN 0 ELSE 1]
       /\ cache = NewCache

\* C29: in every state of a constructed client exactly one of the
\* identifying fields username / accountId, as the getters getUsername and
\* getAccountId return them, is present, also after a successful
\* username-based authentication.
C29_ExactlyOneIdentity ==
  ctor = "ok" => (Truthy(getUsername) # Truthy(getAccountId))

\* A step that empties the cache (the catch block's clear) changes none of
\* the client's fields; a known account identifier is never changed by any
\* step, the passing of time included; and an account-authentication
\* request is only sent while no account identifier is known.
C30_AccountIdKept ==
  /\ (Truthy(cache.id) /\ ~Truthy(cache'.id)) =>
       /\ \E p \in Procs : proc[p].pc = "catch" /\ proc'[p].pc = "cacheClear"
       /\ cache' = NewCache
       /\ UNCHANGED <<accountId, username, password>>
  /\ Truthy(accountId) => accountId' = accountId
  /\ \A p \in Procs :
       proc'[p].calls[AUTH] > proc[p].calls[AUTH] => ~Truthy(accountId)

\* An account-authentication request is in flight only while no account
\* identifier is known, a session-login request carries the known one, and
\* an operation that had logged in before its cache clear sends no
\* account-authentication request after it.
C30_ReloginOnly ==
  \A p \in Procs :
    LET r == proc[p]
    IN /\ (r.pc = "fetch" /\ r.endpoint = AUTH) => ~Truthy(accountId)
       /\ (r.pc = "fetch" /\ r.endpoint = LOGIN) => r.sent = Payload(LOGIN, accountId, r)
       /\ r.atClear[LOGIN] >= 1 =>
            /\ Truthy(accountId)
            /\ r.calls[AUTH] = r.atClear[AUTH]

\* C30: invalidation, by the cache clear after a session error or by the
\* TTL running out, removes only the cached session token and leaves the
\* known account identifier untouched: a username-configured client that
\* has obtained its accountId re-establishes a session with a session-login
\* request only and never repeats the account authentication.
C30_InvalidationKeepsAccount == []C30_ReloginOnly /\ [][C30_AccountIdKept]_vars

\* A username-configured client authenticated and logged in, its readings
\* request was refused with a session error, and after the clear it logged
\* in again without authenticating again and resolved.
C30_Witness ==
  \E p \in Procs :
    LET r == proc[p]
    IN /\ r.pc = "done"
       /\ r.result.state = "resolved"
       /\ Truthy(username)
       /\ r.cleared = 1
       /\ r.calls = [e \in Endpoints |-> IF e = AUTH THEN 1 ELSE 2]
       /\ r.atClear = [e \in Endpoints |-> 1]
       /\ cache.id = r.issued

\* The step is the answer of a session login that passed every check, and
\* the step is the catch block's cache.clear().
LoginStored(p) ==
  /\ LoginLands(p)
  /\ proc'[p].sets = proc[p].sets + 1
CacheCleared(p) ==
  /\ proc[p].pc = "catch"
  /\ proc'[p].pc = "cacheClear"

\* The cache is written only as a session login is answered with success,
\* with the token of that answer and the configured TTL, and the token is
\* UUID-shaped and not all-zero; it is cleared only from the catch block
\* holding a SessionError; no other step of the constructed client changes
\* it (the caller taking the outcome resets the operation's counts).
C31_WritesAndClears ==
  /\ \A p \in Procs :
       /\ (proc[p].pc # "done" /\ proc'[p].sets # proc[p].sets) => LoginStored(p)
       /\ LoginStored(p) =>
            LET res == proc'[p].last.res
            IN /\ proc'[p].last.ep = LOGIN
               /\ res.status = 200
               /\ res.body.kind = "json"
               /\ cache' = [id |-> res.body.data, expiresAt |-> now + Max0(sessionTtlMs)]
               /\ isValidUUID(cache'.id)
               /\ cache'.id.s # DEFAULT_UUID
       /\ (proc[p].pc # "done" /\ proc'[p].cleared # proc[p].cleared) => CacheCleared(p)
       /\ CacheCleared(p) =>
            /\ proc[p].err.kind = "SessionError"
            /\ proc'[p].cleared = proc[p].cleared + 1
            /\ cache' = NewCache
  /\ (ctor = "ok" /\ cache' # cache) => \E p \in Procs : LoginStored(p) \/ CacheCleared(p)

\* C31: the client writes to the session cache only immediately after a
\* successful session login, with the token that login returned and the
\* configured TTL; every token it writes is UUID-shaped and not the
\* all-zero sentinel; it clears the cache only in response to a
\* session-category error.
C31_CacheLifecycle == [][C31_WritesAndClears]_vars

\* An operation stored a token, cleared the cache after a session error
\* and has just stored the token of its second login.
C31_Witness ==
  \E p \in Procs :
    LET r == proc[p]
    IN /\ r.pc = "cacheSet"
       /\ r.cleared = 1
       /\ r.sets = 2
       /\ r.err = NoError
       /\ cache = [id |-> r.issued, expiresAt |-> now + sessionTtlMs]

\* C32: the transport never sleeps after its final attempt: when the
\* attempt whose number equals "retries" ends in a network failure or a
\* retryable status, with or without a retry hint, the failure is thrown
\* without a further delay.
C32_NoSleepAfterFinalAttempt ==
  \A p \in Procs : proc[p].pc = "sleep" => proc[p].attempt < retries

\* A readings call is under way (a request in flight or a sleep between
\* two attempts): the sessionId of its request
\* is UUID-shaped, not all-zero, and is what cache.get() returned to this
\* try or what the session login of this try returned.
C33_TokenOfReadings ==
  \A p \in Procs :
    LET r == proc[p]
    IN (r.pc \in {"fetch", "sleep"} /\ r.endpoint = READ) =>
         /\ r.sent.ep = READ
         /\ isValidUUID(r.sent.id)
         /\ r.sent.id.s # DEFAULT_UUID
         /\ r.sent.minutes = r.minutes /\ r.sent.maxCount = r.maxCount
         /\ \/ r.sent.id = r.cached /\ r.calls[LOGIN] = r.atClear[LOGIN]
            \/ /\ r.sent.id = r.issued
               /\ r.calls[LOGIN] = r.atClear[LOGIN] + 1
               /\ r.cached \notin UsableTokens
         /\ r.calls[READ] = r.atClear[READ] + 1

\* Within one try the calls come in the order account authentication,
\* session login, readings, each at most once.
C33_Order ==
  \A p \in Procs :
    /\ proc'[p].calls[AUTH] > proc[p].calls[AUTH] =>
         /\ proc'[p].calls[AUTH] = proc[p].atClear[AUTH] + 1
         /\ proc[p].calls[LOGIN] = proc[p].atClear[LOGIN]
         /\ proc[p].calls[READ] = proc[p].atClear[READ]
    /\ proc'[p].calls[LOGIN] > proc[p].calls[LOGIN] =>
         /\ proc'[p].calls[LOGIN] = proc[p].atClear[LOGIN] + 1
         /\ proc[p].calls[READ] = proc[p].atClear[READ]
    /\ proc'[p].calls[READ] > proc[p].calls[READ] =>
         proc'[p].calls[READ] = proc[p].atClear[READ] + 1

\* C33: every readings request carries a sessionId that is UUID-shaped,
\* not the all-zero sentinel, and was returned by the cache or by a
\* session-login response earlier in the same flow; within one flow the
\* requests occur in the order account authentication (if any), session
\* login (if any), readings.
C33_ReadingsToken == []C33_TokenOfReadings /\ [][C33_Order]_vars

\* A readings request is in flight with the token of the login that
\* followed the account authentication of the same try.
C33_Witness ==
  \E p \in Procs :
    LET r == proc[p]
    IN /\ r.pc = "fetch"
       /\ r.endpoint = READ
       /\ r.cached = Null
       /\ r.calls = [e \in Endpoints |-> 1]
       /\ r.sent = Payload(READ, r.issued, r)
       /\ r.issued = Str(TOK2)

\* C34: the client's known account identifier is write-once: once it holds
\* a non-empty value, supplied at construction or stored from an
\* account-authentication response, no later operation, error, retry or
\* invalidation changes or clears it.
C34_WriteOnce == [][Truthy(accountId) => accountId' = accountId]_vars

\* C35: an account identifier obtained from the account-authentication
\* endpoint is kept only if it passed validation: the accountId stored by a
\* username-configured client is absent, or UUID-shaped and not the
\* all-zero sentinel, so that a call which failed on a malformed or sentinel
\* identifier does not keep a later call from authenticating again.
C35_OnlyValidatedRetained ==
  (ctor = "ok" /\ UsernameConfigured) =>
     \/ ~Truthy(accountId)
     \/ isValidUUID(accountId) /\ accountId.s # DEFAULT_UUID

\* The calls of one operation: at most two to each endpoint and five in
\* all; a call has sent at most "retries" requests.
C36_Bounded ==
  \A p \in Procs :
    LET r == proc[p]
    IN /\ \A e \in Endpoints : r.calls[e] <= 2
       /\ r.calls[AUTH] + r.calls[LOGIN] + r.calls[READ] <= 5
       /\ r.reqs <= Max0(retries)
       /\ r.took <= Max0(retries)
       /\ r.attempt <= Max0(retries)
       /\ r.cleared <= 1

\* C36: every read operation terminates, resolved or rejected, provided
\* each HTTP request and cache operation returns; it performs at most 2
\* readings calls, 2 session logins and 2 account authentications, at most
\* 5 endpoint calls in all, and each endpoint call issues at most
\* max-attempts HTTP requests.
C36_Terminates ==
  /\ []C36_Bounded
  /\ \A p \in Procs : (proc[p].pc # "idle") ~> (proc[p].pc = "done")

\* An operation ended after five endpoint calls, the first readings call
\* having taken two requests.
C36_Witness ==
  \E p \in Procs :
    LET r == proc[p]
    IN /\ r.pc = "done"
       /\ r.calls = [e \in Endpoints |-> IF e = AUTH THEN 1 ELSE 2]
       /\ retries = 2
       /\ r.took = 2

\* While a readings call runs and fails, and while the catch block handles
\* an error of it that is not a SessionError, no step changes the cache or
\* the account identifier; and an operation that starts reads the cache as
\* it is.
C37_Frame ==
  \A p \in Procs :
    /\ (/\ proc[p].endpoint = READ
        /\ proc[p].pc \in {"fetch", "sleep", "catch"}
        /\ proc[p].pc = "catch" => proc[p].err.kind # "SessionError"
        /\ proc'[p] # proc[p]) =>
         /\ cache' = cache
         /\ accountId' = accountId
    /\ (proc[p].pc = "idle" /\ proc'[p].pc = "cacheGet") =>
         /\ proc'[p].cached = CacheGet(cache, now)
         /\ cache' = cache

\* An operation is over whose last try sent its readings request and
\* failed on it with an error that is not a SessionError: the cache still
\* holds the token that request carried, with the expiry it had.
C37_TokenKept ==
  \A p \in Procs :
    LET r == proc[p]
    IN (/\ r.pc = "done"
        /\ r.result.state = "rejected"
        /\ r.result.err.kind # "SessionError"
        /\ r.endpoint = READ
        /\ r.calls[READ] = r.atClear[READ] + 1
        /\ r.sent # Null
        /\ r.sent.ep = READ) =>
         /\ cache.id = r.sent.id
         /\ r.sets > r.cleared => cache = [id |-> r.issued, expiresAt |-> setAt + Max0(sessionTtlMs)]
         /\ r.cleared = (IF r.retried THEN 1 ELSE 0)

\* C37: a read operation that fails with a non-session error after the
\* session was established (network failure, exhausted retries,
\* ServerError, validation failure of the readings request) leaves the
\* cache entry and the known accountId as they were before the failing
\* request, so that the next operation reuses the cached token without
\* authenticating again.
C37_FailureKeepsSession == []C37_TokenKept /\ [][C37_Frame]_vars

\* The readings request of an operation that had authenticated and logged
\* in was answered with readings that fail validation: the operation is
\* rejected and the cache still returns the token.
C37_Witness ==
  \E p \in Procs :
    LET r == proc[p]
    IN /\ r.pc = "done"
       /\ r.result = Rejected(ZodError)
       /\ r.last.ep = READ
       /\ r.calls = [e \in Endpoints |-> 1]
       /\ accountId = Str(ACC)
       /\ CacheGet(cache, now) = r.issued
       /\ r.sent.id = r.issued

\* C38: whenever a read operation ends by passing a session-category error
\* to the caller, the cache does not hold a token the server has rejected:
\* the token of the failed second readings request is not left in the cache
\* for the next operation.
C38_RejectedTokenNotKept ==
  \A p \in Procs :
    LET r == proc[p]
    IN (/\ r.pc = "done"
        /\ r.result.state = "rejected"
        /\ r.result.err.kind = "SessionError") =>
         /\ r.retried
         /\ (r.last.ep = READ /\ SessionRejected(READ, r.last.res)) =>
              CacheGet(cache, now) # r.sent.id

\* C39: the transport issues at least one HTTP request for every call,
\* whatever the retry policy (retries 0 or negative included), or reports
\* a failure that reflects an observed status or network error: a call
\* never fails with no request made and nothing observed.
C39_AtLeastOneRequest ==
  \A p \in Procs :
    LET r == proc[p]
    IN r.endpoint \in Endpoints =>
         /\ r.calls[r.endpoint] >= 1
         /\ r.err # Err("Error", "undefined")

\* The catch block of p clears the cache after the server refused the
\* token of p's readings request: what the clear removes is that token.
C40_ClearsOwnToken ==
  \A p \in Procs :
    (/\ CacheCleared(p)
     /\ proc[p].last.ep = READ
     /\ SessionRejected(READ, proc[p].last.res)
     /\ Truthy(cache.id)) =>
       cache.id = proc[p].sent.id

\* C40: under any interleaving of concurrent read operations on one client
\* and one shared cache, the self-healing step of an operation discards
\* only the token the server rejected for that operation; a fresh token
\* that a concurrent operation stored after re-authenticating is never
\* removed by another operation's cache clear.
C40_ClearSparesFreshToken == [][C40_ClearsOwnToken]_vars

====
